---- MODULE Spec2Model ----
(***************************************************************************)
(* Model of the aggregation-and-caching pipeline of the FlowBridge AI      *)
(* engine: the Redis-backed CacheManager (data/storage/cache.py), the      *)
(* YieldScanner aggregation (data/collectors/yield_scanner.py) with its    *)
(* HTTP endpoint (api/endpoints.py) and the PostgreSQL-backed              *)
(* DatabaseManager (data/storage/database.py).                             *)
(*                                                                         *)
(* Each component has its own specification over the shared variables:     *)
(*   SpecCache  CacheManager.set / get / set_if_not_exists over Redis      *)
(*   SpecKey    CacheManager._generate_key as a pure function              *)
(*   SpecAgg    YieldScanner.scan_yield_opportunities and its endpoint     *)
(*   SpecLimit  the same scan on payloads longer than the sources' slices  *)
(*   SpecRisk   the risk scores of single records, fields present or not   *)
(*   SpecDb     DatabaseManager.store_yield_data / store_price_data        *)
(*   SpecOps    every CacheManager call, each Redis command free to raise  *)
(*   SpecServe  successive requests to the endpoint, beside the cache      *)
(*   SpecStore  DatabaseManager one-row stores, cleanup and price query    *)
(*   SpecCollect the collectors' fetches, each upstream free to fail       *)
(*   SpecTtl    the expiry every CacheManager write gives its entry        *)
(*   SpecRate   the rate limiter of the API under two server threads       *)
(*   SpecBreaker CircuitBreaker.call around a function that may raise      *)
(***************************************************************************)
EXTENDS Integers, Sequences, FiniteSets, TLC

VARIABLES
    \* ---- CacheManager ----
    redis,      \* self.redis is not None (initialize() has run)
    store,      \* the Redis keyspace: key -> [present, blob, exp]
    now,        \* wall clock, in seconds
    pc,         \* position of each caller of set_if_not_exists
    req,        \* the arguments of each caller's call in progress
    ret,        \* the value each caller's call returned
    got,        \* the get that has just returned: [key, val]
    lastSet,    \* history: the most recent successful set on each key: its
                \* value, its expiry time, and the expiry time of the live
                \* entry it replaced (0 when it replaced none)
    \* ---- CacheManager._generate_key ----
    prefix,     \* the category prefix
    ident1,     \* a first identifier (a dict of parameters, or a string)
    ident2,     \* a second identifier
    key1,       \* _generate_key(prefix, ident1), "" before the call
    key2,       \* _generate_key(prefix, ident2), "" before the call
    \* ---- YieldScanner and the yield-opportunities endpoint ----
    params,     \* the request: [min_apy, min_tvl, chains]
    payload,    \* what each upstream API answers: source -> response
    task,       \* each _scan_* coroutine: "pending" or "done"
    taskRes,    \* what each finished coroutine returned
    arrival,    \* the sources in the order their coroutines finished
    apc,        \* "scanning", "done" (scan returned), "responded"
    out,        \* what scan_yield_opportunities returned
    response,   \* the JSON body of the endpoint
    \* ---- risk scoring of single records ----
    riskPool,   \* the one pool of the DeFiLlama payload (a dict)
    riskVault,  \* the one vault of the Beefy payload (a dict)
    riskOut,    \* what the scan returned for these payloads
    riskPc,     \* "input" before the scan, "scanned" after it
    \* ---- DatabaseManager ----
    atomicBatch, \* executemany runs its batch in one implicit transaction
    tables,     \* the committed rows of each table
    nextId,     \* the next value of each table's SERIAL sequence
    dbNow,      \* the database clock
    conn,       \* the store_* call of each pooled connection
    pend,       \* the row versions each open transaction has written
    calls,      \* the number of store_* calls begun
    lastUpsert, \* history: the latest committed upsert per table and key
    \* ---- CacheManager calls on a backend that may fail ----
    op,         \* the CacheManager call that has just returned
    \* ---- successive requests to the yield-opportunities endpoint ----
    served,     \* history: the requests answered so far, oldest first
    \* ---- DatabaseManager: single statements, cleanup and queries ----
    dbOp,       \* the DatabaseManager call that has just returned
    \* ---- the collectors' fetches against failing upstreams ----
    fetch,      \* the fetch that has just returned
    \* ---- the rate limiter of the API ----
    rateConfig, \* RATE_LIMIT_REQUESTS and RATE_LIMIT_WINDOW
    rateStore,  \* rate_limit_store: the client's entry, the other entries
    rateNow,    \* time.time()
    rateThread, \* each server thread: its place in rate_limit()
    rateLog,    \* history: the requests begun, admitted and rejected
    \* ---- CircuitBreaker ----
    breakerConfig, \* failure_threshold and recovery_timeout
    breaker,       \* state, failure_count and last_failure_time
    breakerNow,    \* time.time()
    breakerCall,   \* the call that has just ended
    breakerStreak  \* history: failures of func since its last success

cacheVars == <<redis, store, now, pc, req, ret, got, lastSet>>

keyVars   == <<prefix, ident1, ident2, key1, key2>>

aggVars   == <<params, payload, task, taskRes, arrival, apc, out, response>>

dbVars    == <<atomicBatch, tables, nextId, dbNow, conn, pend, calls,
               lastUpsert>>

riskVars  == <<riskPool, riskVault, riskOut, riskPc>>

opVars    == <<op>>

serveVars == <<served>>

storeVars == <<dbOp>>

collectVars == <<fetch>>

rateVars  == <<rateConfig, rateStore, rateNow, rateThread, rateLog>>

breakerVars == <<breakerConfig, breaker, breakerNow, breakerCall, breakerStreak>>

moreVars  == <<storeVars, collectVars, rateVars, breakerVars>>

vars == <<cacheVars, keyVars, aggVars, riskVars, dbVars, opVars, serveVars,
         moreVars>>

nonCacheVars == <<keyVars, aggVars, riskVars, dbVars, opVars, serveVars,
                 moreVars>>
nonKeyVars   == <<cacheVars, aggVars, riskVars, dbVars, opVars, serveVars,
                 moreVars>>
nonAggVars   == <<cacheVars, keyVars, riskVars, dbVars, opVars, serveVars,
                 moreVars>>
nonRiskVars  == <<cacheVars, keyVars, aggVars, dbVars, opVars, serveVars,
                 moreVars>>
nonDbVars    == <<cacheVars, keyVars, aggVars, riskVars, opVars, serveVars,
                 moreVars>>

----------------------------------------------------------------------------
(***************************************************************************)
(* Python values.  A value is a tree [t, a, items]: t is the Python type,  *)
(* a the text of a scalar, items the children of a container.  A dict is   *)
(* a sequence of "pair" nodes <<key, value>> in insertion order.           *)
(***************************************************************************)
PStr(s)      == [t |-> "str", a |-> s, items |-> <<>>]
PInt(s)      == [t |-> "int", a |-> s, items |-> <<>>]
PDatetime(s) == [t |-> "datetime", a |-> s, items |-> <<>>]
PList(xs)    == [t |-> "list", a |-> "", items |-> xs]
PTuple(xs)   == [t |-> "tuple", a |-> "", items |-> xs]
PPair(k, v)  == [t |-> "pair", a |-> "", items |-> <<k, v>>]
PDict(ps)    == [t |-> "dict", a |-> "", items |-> ps]
PNone        == [t |-> "NoneType", a |-> "None", items |-> <<>>]
PTrue        == [t |-> "bool", a |-> "True", items |-> <<>>]
PFalse       == [t |-> "bool", a |-> "False", items |-> <<>>]

(***************************************************************************)
(* json.dumps(value, default=str): the JSON document as a tree with the    *)
(* JSON types string, number, literal, array and object.  Tuples become    *)
(* arrays, the keys of an object are strings (an int key is written as its *)
(* decimal text), and a value json cannot encode goes through str().       *)
(***************************************************************************)
RECURSIVE JsonDumps(_)
JsonDumps(v) ==
    CASE v.t = "str"      -> [t |-> "jstring", a |-> v.a, items |-> <<>>]
      [] v.t = "int"      -> [t |-> "jnumber", a |-> v.a, items |-> <<>>]
      [] v.t = "bool"     -> [t |-> "jliteral", a |-> v.a, items |-> <<>>]
      [] v.t = "NoneType" -> [t |-> "jliteral", a |-> v.a, items |-> <<>>]
      [] v.t = "datetime" -> [t |-> "jstring", a |-> v.a, items |-> <<>>]
      [] v.t \in {"list", "tuple"} ->
            [t |-> "jarray", a |-> "",
             items |-> [i \in 1..Len(v.items) |-> JsonDumps(v.items[i])]]
      [] v.t = "dict" ->
            [t |-> "jobject", a |-> "",
             items |-> [i \in 1..Len(v.items) |->
                 [t |-> "jmember", a |-> v.items[i].items[1].a,
                  items |-> <<JsonDumps(v.items[i].items[2])>>]]]

(* json.loads(text): strings, ints, lists and dicts with str keys. *)
RECURSIVE JsonLoads(_)
JsonLoads(j) ==
    CASE j.t = "jstring"  -> PStr(j.a)
      [] j.t = "jnumber"  -> PInt(j.a)
      [] j.t = "jliteral" -> IF j.a = "None" THEN PNone
                             ELSE [t |-> "bool", a |-> j.a, items |-> <<>>]
      [] j.t = "jarray"   ->
            PList([i \in 1..Len(j.items) |-> JsonLoads(j.items[i])])
      [] j.t = "jobject"  ->
            PDict([i \in 1..Len(j.items) |->
                PPair(PStr(j.items[i].a), JsonLoads(j.items[i].items[1]))])

(* set: dict and list are written as JSON text, everything else pickled. *)
Serialize(v) ==
    IF v.t \in {"dict", "list"}
    THEN [fmt |-> "json", body |-> JsonDumps(v)]
    ELSE [fmt |-> "pickle", body |-> v]

(***************************************************************************)
(* get: json.loads(value) is tried first.  On the bytes of a pickle (which *)
(* start with the PROTO opcode 0x80) json.loads raises UnicodeDecodeError, *)
(* which is neither JSONDecodeError nor TypeError: it leaves the inner     *)
(* try, the outer handler logs it and get returns the default.             *)
(***************************************************************************)
Deserialize(blob, default) ==
    IF blob.fmt = "json" THEN JsonLoads(blob.body) ELSE default

----------------------------------------------------------------------------
(* Bounds and input sets of the cache model. *)
MaxTime == 2
MaxTtl  == 2

Callers == {1, 2}
Keys    == {"yield_opportunities:1"}
Ttls    == 0..MaxTtl

VCleanDict == PDict(<<PPair(PStr("apy"), PInt("5"))>>)
VIntKey    == PDict(<<PPair(PInt("1"), PStr("a"))>>)
VStr       == PStr("hello")
Values     == {VCleanDict, VIntKey, VStr}
(* the value each caller of set_if_not_exists passes, and the ttls *)
SineValue(c) == IF c = 1 THEN VCleanDict ELSE VIntKey
SineTtls     == {0, MaxTtl}

NoBlob  == [fmt |-> "none", body |-> PNone]
Absent  == [present |-> FALSE, blob |-> NoBlob, exp |-> 0]
NoReq   == [key |-> "", val |-> PNone, ttl |-> 0, absent0 |-> FALSE, ticked |-> FALSE]
NoGet   == [key |-> "", val |-> PNone]
NoSet   == [done |-> FALSE, val |-> PNone, exp |-> 0, over |-> 0]

(* Redis: a key whose expiry time has been reached is gone. *)
Live(k) == store[k].present /\ now < store[k].exp

(* Redis SETEX key seconds value: value and expiry are both replaced. *)
RedisSetexKeepTtl(k, ttl, blob) ==
    [store EXCEPT ![k] = [present |-> TRUE, blob |-> blob,
                          exp |-> IF Live(k) THEN store[k].exp ELSE now + ttl]]
RedisSetex(k, ttl, blob) ==
    [store EXCEPT ![k] = [present |-> TRUE, blob |-> blob, exp |-> now + ttl]]

(* CacheManager.set: FALSE without a connection or when SETEX raises      *)
(* (Redis rejects an expire time that is not positive).                   *)
SetSucceeds(ttl) == redis /\ ttl > 0

(* CacheManager.get *)
CacheGet(k, default) ==
    IF ~redis THEN default
    ELSE IF ~Live(k) THEN default
    ELSE Deserialize(store[k].blob, default)

CacheInit ==
    /\ redis = FALSE
    /\ store = [k \in Keys |-> Absent]
    /\ now = 0
    /\ pc = [c \in Callers |-> "idle"]
    /\ req = [c \in Callers |-> NoReq]
    /\ ret = [c \in Callers |-> PNone]
    /\ got = NoGet
    /\ lastSet = [k \in Keys |-> NoSet]

(* CacheManager.initialize *)
Initialize ==
    /\ ~redis
    /\ redis' = TRUE
    /\ got' = NoGet
    /\ UNCHANGED <<store, now, pc, req, ret, lastSet>>
    /\ UNCHANGED nonCacheVars

(* The effect of self.set(key, value, ttl) on the keyspace and the history. *)
ApplySet(k, v, ttl) ==
    IF SetSucceeds(ttl)
    THEN /\ store' = RedisSetex(k, ttl, Serialize(v))
         /\ lastSet' = [lastSet EXCEPT ![k] =
                            [done |-> TRUE, val |-> v, exp |-> now + ttl,
                             over |-> IF Live(k) THEN store[k].exp ELSE 0]]
    ELSE UNCHANGED <<store, lastSet>>

(* A call of set(key, value, ttl). *)
Set(k, v, ttl) ==
    /\ ApplySet(k, v, ttl)
    /\ got' = NoGet
    /\ UNCHANGED <<redis, now, pc, req, ret>>
    /\ UNCHANGED nonCacheVars

(* A call of get(key). *)
Get(k) ==
    /\ got' = [key |-> k, val |-> CacheGet(k, PNone)]
    /\ UNCHANGED <<redis, store, now, pc, req, ret, lastSet>>
    /\ UNCHANGED nonCacheVars

(* set_if_not_exists up to the answer of `await self.exists(key)`. *)
SineExists(c, k, v, ttl) ==
    /\ pc[c] = "idle"
    /\ req' = [req EXCEPT ![c] = [key |-> k, val |-> v, ttl |-> ttl,
                                  absent0 |-> redis /\ ~Live(k),
                                  ticked |-> FALSE]]
    /\ IF redis /\ ~Live(k)
       THEN /\ pc' = [pc EXCEPT ![c] = "sine_set"]
            /\ UNCHANGED ret
       ELSE /\ pc' = [pc EXCEPT ![c] = "done"]
            /\ ret' = [ret EXCEPT ![c] = PFalse]
    /\ got' = NoGet
    /\ UNCHANGED <<redis, store, now, lastSet>>
    /\ UNCHANGED nonCacheVars

(* set_if_not_exists resumed: `return await self.set(key, value, ttl)`. *)
SineSet(c) ==
    /\ pc[c] = "sine_set"
    /\ ApplySet(req[c].key, req[c].val, req[c].ttl)
    /\ ret' = [ret EXCEPT ![c] = IF SetSucceeds(req[c].ttl) THEN PTrue ELSE PFalse]
    /\ pc' = [pc EXCEPT ![c] = "done"]
    /\ got' = NoGet
    /\ UNCHANGED <<redis, now, req>>
    /\ UNCHANGED nonCacheVars

(* The caller takes the result and is free for its next call. *)
Return(c) ==
    /\ pc[c] = "done"
    /\ pc' = [pc EXCEPT ![c] = "idle"]
    /\ req' = [req EXCEPT ![c] = NoReq]
    /\ ret' = [ret EXCEPT ![c] = PNone]
    /\ got' = NoGet
    /\ UNCHANGED <<redis, store, now, lastSet>>
    /\ UNCHANGED nonCacheVars

(* One second passes; Redis drops the keys whose expiry time is reached. *)
Tick ==
    /\ now < MaxTime
    /\ now' = now + 1
    /\ store' = [k \in Keys |->
                    IF store[k].present /\ now + 1 >= store[k].exp
                    THEN Absent ELSE store[k]]
    /\ req' = [c \in Callers |->
                  IF pc[c] = "idle" THEN req[c] ELSE [req[c] EXCEPT !.ticked = TRUE]]
    /\ got' = NoGet
    /\ UNCHANGED <<redis, pc, ret, lastSet>>
    /\ UNCHANGED nonCacheVars

CacheNext ==
    \/ Initialize
    \/ \E k \in Keys, v \in Values, ttl \in Ttls : Set(k, v, ttl)
    \/ \E k \in Keys : Get(k)
    \/ \E c \in Callers, k \in Keys, ttl \in SineTtls :
          SineExists(c, k, SineValue(c), ttl)
    \/ \E c \in Callers : SineSet(c)
    \/ \E c \in Callers : Return(c)
    \/ Tick

----------------------------------------------------------------------------
(***************************************************************************)
(* CacheManager._generate_key.  An identifier is a dict, given as the      *)
(* sequence of its (key, value) items in insertion order, or a string.     *)
(***************************************************************************)
MaxParams  == 3
ParamKeys  == {"a", "b", "c"}
ParamVals  == {1, 2}
Prefixes   == {"yield_opportunities", "price"}

(* The order of str on the parameter names ("a" < "b" < "c"). *)
StrRank(k) == CASE k = "a" -> 1 [] k = "b" -> 2 [] k = "c" -> 3

(* dict.items() of every dict over the parameter names, in every insertion order *)
DictItems ==
    { its \in UNION { [1..n -> ParamKeys \X ParamVals] : n \in 0..MaxParams } :
        \A i \in 1..Len(its), j \in 1..Len(its) : i # j => its[i][1] # its[j][1] }

Identifiers ==
    { [kind |-> "dict", items |-> its, s |-> ""] : its \in DictItems }
    \cup { [kind |-> "str", items |-> <<>>, s |-> "ETH"] }

(* list.insert of one item into a list sorted by key *)
RECURSIVE InsertItem(_, _)
InsertItem(it, sorted) ==
    IF sorted = <<>> THEN <<it>>
    ELSE IF StrRank(it[1]) < StrRank(Head(sorted)[1])
         THEN <<it>> \o sorted
         ELSE <<Head(sorted)>> \o InsertItem(it, Tail(sorted))

(* sorted(identifier.items()): the keys of a dict differ, so the items are *)
(* ordered by key alone.                                                   *)
UnsortedItems(its) == its
RECURSIVE SortedItems(_)
SortedItems(its) ==
    IF its = <<>> THEN <<>>
    ELSE InsertItem(Head(its), SortedItems(Tail(its)))

(* json.dumps of a list of (str, int) tuples: [["a", 1], ["b", 2]] *)
RECURSIVE JsonItems(_)
JsonItems(its) ==
    IF its = <<>> THEN ""
    ELSE "[\"" \o Head(its)[1] \o "\", " \o ToString(Head(its)[2]) \o "]"
         \o (IF Tail(its) = <<>> THEN "" ELSE ", " \o JsonItems(Tail(its)))

JsonDumpsItems(its) == "[" \o JsonItems(its) \o "]"

(* hashlib.md5(text.encode()).hexdigest() on the texts of the input set *)
Md5Hex(s) ==
    CASE s = "[[\"a\", 1], [\"b\", 1], [\"c\", 1]]" -> "26c1603ee738a73e5ced2908be2ad7cd"
      [] s = "[[\"a\", 1], [\"b\", 1], [\"c\", 2]]" -> "82ac6e190eb7ec6f289f1ead42f52a66"
      [] s = "[[\"a\", 1], [\"b\", 1]]" -> "b94904ae54e5c4fba00a66f67997af4a"
      [] s = "[[\"a\", 1], [\"b\", 2], [\"c\", 1]]" -> "9136835ee8009217b133963c85475f7d"
      [] s = "[[\"a\", 1], [\"b\", 2], [\"c\", 2]]" -> "11d2e04ea1b618066413c1ffd93c038e"
      [] s = "[[\"a\", 1], [\"b\", 2]]" -> "406ad83146c34c04e727366551345608"
      [] s = "[[\"a\", 1], [\"c\", 1], [\"b\", 1]]" -> "2b9f199798ce384ee28831d4374fb32e"
      [] s = "[[\"a\", 1], [\"c\", 1], [\"b\", 2]]" -> "30a73e0d31b2031e2c5a1412835c1f39"
      [] s = "[[\"a\", 1], [\"c\", 1]]" -> "c2876f8a651f733d2fd0a75a7ee4201e"
      [] s = "[[\"a\", 1], [\"c\", 2], [\"b\", 1]]" -> "c8a73d2a743d7df5a78be7b4e34a0c04"
      [] s = "[[\"a\", 1], [\"c\", 2], [\"b\", 2]]" -> "b85fe8a5ffc798498f4b896680726d97"
      [] s = "[[\"a\", 1], [\"c\", 2]]" -> "af03d65f51af44cb36276df7cdaa51b8"
      [] s = "[[\"a\", 1]]" -> "d0c276e87e0163141b9eed7fd879e32b"
      [] s = "[[\"a\", 2], [\"b\", 1], [\"c\", 1]]" -> "65f505a7d1c9f8fb1c5aeb76e3e4844a"
      [] s = "[[\"a\", 2], [\"b\", 1], [\"c\", 2]]" -> "2d34fdd10705335ec01c488a6e4d02ab"
      [] s = "[[\"a\", 2], [\"b\", 1]]" -> "ae4db2fabfdf11dd381d8b64490c95a8"
      [] s = "[[\"a\", 2], [\"b\", 2], [\"c\", 1]]" -> "d0e7037dda94b28d7c812130bb1266bb"
      [] s = "[[\"a\", 2], [\"b\", 2], [\"c\", 2]]" -> "bdcb87641c4cec4edce8843ca761be69"
      [] s = "[[\"a\", 2], [\"b\", 2]]" -> "1486c83c3c78bad97b0ac2cbda4348cb"
      [] s = "[[\"a\", 2], [\"c\", 1], [\"b\", 1]]" -> "7c5610cce21291ff229fd588d60cf9ef"
      [] s = "[[\"a\", 2], [\"c\", 1], [\"b\", 2]]" -> "48ef541e61d5ab619e5729d1de9297e5"
      [] s = "[[\"a\", 2], [\"c\", 1]]" -> "a130a13d7d57c9cefda2ab4459cd197e"
      [] s = "[[\"a\", 2], [\"c\", 2], [\"b\", 1]]" -> "f18419813e0363bb3e591928636d1272"
      [] s = "[[\"a\", 2], [\"c\", 2], [\"b\", 2]]" -> "d88621a99bb9907e1563c179ccfed9b4"
      [] s = "[[\"a\", 2], [\"c\", 2]]" -> "ade611661c82cd0c560906da025a0783"
      [] s = "[[\"a\", 2]]" -> "44703a2b75af64e930f98dece1e49f4b"
      [] s = "[[\"b\", 1], [\"a\", 1], [\"c\", 1]]" -> "38470b64f97f89661098c3c0eba0536e"
      [] s = "[[\"b\", 1], [\"a\", 1], [\"c\", 2]]" -> "953f3e902fcd2a066786ef04755c389e"
      [] s = "[[\"b\", 1], [\"a\", 1]]" -> "80a88cd3d66d5e5a107722938291fcf7"
      [] s = "[[\"b\", 1], [\"a\", 2], [\"c\", 1]]" -> "0d21bb7b21e1f9b8c0dba208ede7d7fc"
      [] s = "[[\"b\", 1], [\"a\", 2], [\"c\", 2]]" -> "a6ba0410ec8db0168d21d4db941b6893"
      [] s = "[[\"b\", 1], [\"a\", 2]]" -> "ce3b6e54576f014b87e9a742bc9dd4f3"
      [] s = "[[\"b\", 1], [\"c\", 1], [\"a\", 1]]" -> "eb92a1586602407969a2956ab06cf107"
      [] s = "[[\"b\", 1], [\"c\", 1], [\"a\", 2]]" -> "7d63f5474d562cdb963efd085382e0e8"
      [] s = "[[\"b\", 1], [\"c\", 1]]" -> "43debddd955e2151be91c43fda37e50f"
      [] s = "[[\"b\", 1], [\"c\", 2], [\"a\", 1]]" -> "1836675de5100cc2d68030a475a09ed3"
      [] s = "[[\"b\", 1], [\"c\", 2], [\"a\", 2]]" -> "6e4f38305fbc932e00fbab7af73e33f2"
      [] s = "[[\"b\", 1], [\"c\", 2]]" -> "954345b261f122f16d53a427a73dfcee"
      [] s = "[[\"b\", 1]]" -> "1550a081785ab02e83abf25678ff8038"
      [] s = "[[\"b\", 2], [\"a\", 1], [\"c\", 1]]" -> "2bf64b0910578944d2f1320a190dfd1a"
      [] s = "[[\"b\", 2], [\"a\", 1], [\"c\", 2]]" -> "567c322b31291323a5d2d9f990e92b08"
      [] s = "[[\"b\", 2], [\"a\", 1]]" -> "927690bf0139593e361588067d621c94"
      [] s = "[[\"b\", 2], [\"a\", 2], [\"c\", 1]]" -> "568b9ffcac473924c89c477836915814"
      [] s = "[[\"b\", 2], [\"a\", 2], [\"c\", 2]]" -> "fdfa142926e27106821e66f63997d09a"
      [] s = "[[\"b\", 2], [\"a\", 2]]" -> "70dd0cdaadbd4a84ca7acbed32583bb2"
      [] s = "[[\"b\", 2], [\"c\", 1], [\"a\", 1]]" -> "10ec113ae9d8d4abe3dd1977f8d0da9e"
      [] s = "[[\"b\", 2], [\"c\", 1], [\"a\", 2]]" -> "595c9d48e93db2970299d7ac51db580c"
      [] s = "[[\"b\", 2], [\"c\", 1]]" -> "9dc52826c1ec6613fbb4d104c2f1c805"
      [] s = "[[\"b\", 2], [\"c\", 2], [\"a\", 1]]" -> "051f33f93eaf231b61d035991047b754"
      [] s = "[[\"b\", 2], [\"c\", 2], [\"a\", 2]]" -> "45d664033fad4b25583661c6912d94ea"
      [] s = "[[\"b\", 2], [\"c\", 2]]" -> "8e0c47c24026ea3f498c050b007755e0"
      [] s = "[[\"b\", 2]]" -> "226664e3b3c9428476472d4817820e95"
      [] s = "[[\"c\", 1], [\"a\", 1], [\"b\", 1]]" -> "8888f22b06b754ae3925b85764bc64ee"
      [] s = "[[\"c\", 1], [\"a\", 1], [\"b\", 2]]" -> "824eecb0c251778841653bbd45de3143"
      [] s = "[[\"c\", 1], [\"a\", 1]]" -> "6248b82b3bb784c1c44c514a796ad72b"
      [] s = "[[\"c\", 1], [\"a\", 2], [\"b\", 1]]" -> "3542d8173e08abd7e8114c8222672957"
      [] s = "[[\"c\", 1], [\"a\", 2], [\"b\", 2]]" -> "c0fc28ac269e2168c128d401cad60448"
      [] s = "[[\"c\", 1], [\"a\", 2]]" -> "0f7a7e78d929bf52413f08cbf8cba985"
      [] s = "[[\"c\", 1], [\"b\", 1], [\"a\", 1]]" -> "b1df9ba51fc1e71348d69853e72dd600"
      [] s = "[[\"c\", 1], [\"b\", 1], [\"a\", 2]]" -> "2539bd29c215177b1e562f37d29d8c40"
      [] s = "[[\"c\", 1], [\"b\", 1]]" -> "9db7755d3425740e3a16bff356b8db39"
      [] s = "[[\"c\", 1], [\"b\", 2], [\"a\", 1]]" -> "32f51460945dd35c201bb735334ddebb"
      [] s = "[[\"c\", 1], [\"b\", 2], [\"a\", 2]]" -> "710e27996a9249e20b4c7a92c66f5d28"
      [] s = "[[\"c\", 1], [\"b\", 2]]" -> "ad85580b7053ae9cd5deabff4075b30e"
      [] s = "[[\"c\", 1]]" -> "7e388129d3d0988b37865c75d62281ea"
      [] s = "[[\"c\", 2], [\"a\", 1], [\"b\", 1]]" -> "4c010223e70dffd3f1748aa247e24167"
      [] s = "[[\"c\", 2], [\"a\", 1], [\"b\", 2]]" -> "b88fed88bacee88a87a30583cfb0d990"
      [] s = "[[\"c\", 2], [\"a\", 1]]" -> "aea18702ca7321e95c065168a38796c7"
      [] s = "[[\"c\", 2], [\"a\", 2], [\"b\", 1]]" -> "7cf71b8763e7ece643e98dea763fb2de"
      [] s = "[[\"c\", 2], [\"a\", 2], [\"b\", 2]]" -> "b495dd03c10fe1d53ce13a666007e52a"
      [] s = "[[\"c\", 2], [\"a\", 2]]" -> "6f7d6c8f39d6e7ba910f94a689371fa8"
      [] s = "[[\"c\", 2], [\"b\", 1], [\"a\", 1]]" -> "53aa19a4e78bd9e78b93ed622f24de28"
      [] s = "[[\"c\", 2], [\"b\", 1], [\"a\", 2]]" -> "b6866ceb10262391dc93bdc263eba420"
      [] s = "[[\"c\", 2], [\"b\", 1]]" -> "9dd39c6d655dcb7453b5cd56b480268d"
      [] s = "[[\"c\", 2], [\"b\", 2], [\"a\", 1]]" -> "026f8b7d9514d594cf14cf12856a7257"
      [] s = "[[\"c\", 2], [\"b\", 2], [\"a\", 2]]" -> "4e08a0a7468ab84f196be0f10be29ce4"
      [] s = "[[\"c\", 2], [\"b\", 2]]" -> "0bceb9c32b40d1881d575d45d982090a"
      [] s = "[[\"c\", 2]]" -> "b4774ee6c0eee877c1b7de62b3d194cd"
      [] s = "[]" -> "d751713988987e9331980363e24189ce"
      [] s = "[[\"chains\", []], [\"min_apy\", 1.0], [\"min_tvl\", 100000.0]]"
            -> "bd3611dee9baa71479f944a6decd4a64"
      [] s = "[[\"chains\", []], [\"min_apy\", 6.0], [\"min_tvl\", 100000.0]]"
            -> "ede2afe6af15f08b5346e6c3973408ae"

GenerateKey(pfx, identifier) ==
    IF identifier.kind = "dict"
    THEN pfx \o ":" \o Md5Hex(JsonDumpsItems(SortedItems(identifier.items)))
    ELSE pfx \o ":" \o identifier.s

KeyInit ==
    /\ prefix \in Prefixes
    /\ ident1 \in Identifiers
    /\ ident2 \in Identifiers
    /\ key1 = "" /\ key2 = ""

GenerateKey1 ==
    /\ key1 = ""
    /\ key1' = GenerateKey(prefix, ident1)
    /\ UNCHANGED <<prefix, ident1, ident2, key2>>
    /\ UNCHANGED nonKeyVars

GenerateKey2 ==
    /\ key2 = ""
    /\ key2' = GenerateKey(prefix, ident2)
    /\ UNCHANGED <<prefix, ident1, ident2, key1>>
    /\ UNCHANGED nonKeyVars

KeyNext == GenerateKey1 \/ GenerateKey2

----------------------------------------------------------------------------
(***************************************************************************)
(* YieldScanner.  APYs are carried in hundredths of a percent (500 is 5%)  *)
(* and Yearn's net_apy, a fraction, in hundredths (5 is 0.05), so that     *)
(* net_apy * 100 is the APY in the common unit.  TVL is in USD.            *)
(* token_symbols and last_updated of a YieldOpportunity are left out: no   *)
(* step of the aggregation reads them.                                     *)
(***************************************************************************)
MaxItems == 2

Sources == <<"defillama", "yearn", "beefy">>   \* the order of `tasks`
SourceSet == {"defillama", "yearn", "beefy"}

DefaultChains == {"ethereum", "polygon", "arbitrum", "optimism", "avalanche"}

(* dict.get(k, default) *)
DictGet(d, k, default) == IF k \in DOMAIN d THEN d[k] ELSE default

(* str.lower() on the chain names of the input set *)
Lower(str) ==
    CASE str = "Ethereum" -> "ethereum"
      [] str = "Aave"     -> "aave"
      [] str = "LP"       -> "lp"
      [] str = "UNI-LP"   -> "uni-lp"
      [] str = "WETH-USDC" -> "weth-usdc"
      [] str = "Polygon"  -> "polygon"
      [] str = "BSC"      -> "bsc"
      [] OTHER            -> str

(* 'lp' in symbol.lower() and '-' in symbol.lower() on the symbols of the input set *)
ContainsLp(symbol)   == symbol \in {"uni-lp", "lp"}
ContainsDash(symbol) == symbol \in {"UNI-LP", "uni-lp", "WETH-USDC", "weth-usdc", "cake-bnb"}

Max(a, b) == IF a > b THEN a ELSE b
Min(a, b) == IF a < b THEN a ELSE b

(* YieldScanner._calculate_risk_score *)
CalculateRiskScoreUnclamped(pool) ==
    LET tvl      == DictGet(pool, "tvlUsd", 0)
        age_days == DictGet(pool, "ageDays", 0)
        project  == Lower(DictGet(pool, "project", ""))
        symbol   == Lower(DictGet(pool, "symbol", ""))
        tvlPart  == IF tvl > 100000000 THEN -1
                    ELSE IF tvl < 1000000 THEN 2 ELSE 0
        agePart  == IF age_days > 365 THEN -1
                    ELSE IF age_days < 30 THEN 2 ELSE 0
        projPart == IF project \in {"aave", "compound", "uniswap", "curve"}
                    THEN -1 ELSE 0
        lpPart   == IF ContainsLp(symbol) THEN 2 ELSE 0
    IN  5 + tvlPart + agePart + projPart + lpPart
CalculateRiskScore(pool) ==
    LET tvl      == DictGet(pool, "tvlUsd", 0)
        age_days == DictGet(pool, "ageDays", 0)
        project  == Lower(DictGet(pool, "project", ""))
        symbol   == Lower(DictGet(pool, "symbol", ""))
        tvlPart  == IF tvl > 100000000 THEN -1
                    ELSE IF tvl < 1000000 THEN 2 ELSE 0
        agePart  == IF age_days > 365 THEN -1
                    ELSE IF age_days < 30 THEN 2 ELSE 0
        projPart == IF project \in {"aave", "compound", "uniswap", "curve"}
                    THEN -1 ELSE 0
        lpPart   == IF ContainsLp(symbol) THEN 1 ELSE 0
    IN  Max(1, Min(10, 5 + tvlPart + agePart + projPart + lpPart))

(* YieldScanner._calculate_beefy_risk_score *)
CalculateBeefyRiskScore(vault) ==
    LET strategy  == Lower(DictGet(vault, "stratType", ""))
        platform  == Lower(DictGet(vault, "platformId", ""))
        stratPart == IF ContainsLp(strategy) THEN 1 ELSE 0
        platPart  == IF platform \in {"pancakeswap", "quickswap"} THEN 1 ELSE 0
    IN  Max(1, Min(10, 4 + stratPart + platPart))

(* YieldScanner._categorize_pool *)
CategorizePool(pool) ==
    LET project == Lower(DictGet(pool, "project", ""))
        symbol  == Lower(DictGet(pool, "symbol", ""))
    IN  IF project \in {"aave", "compound"} THEN "lending"
        ELSE IF project \in {"uniswap", "curve", "balancer"} THEN "dex"
        ELSE IF ContainsLp(symbol) \/ ContainsDash(symbol)
             THEN "liquidity_provision"
        ELSE IF project \in {"yearn", "convex"} THEN "yield_farming"
        ELSE "other"

(* `if not chains: chains = [...]` of scan_yield_opportunities *)
EffectiveChains(chains) == IF chains = {} THEN DefaultChains ELSE chains

(* xs[:n] *)
Slice(xs, n) == SubSeq(xs, 1, Min(n, Len(xs)))

DefiLlamaLimit == 50
BeefyLimit     == 30

(* YieldScanner._scan_defillama_yields: [] on a status other than 200 and  *)
(* on any exception (connection error, timeout, malformed body).           *)
ScanDefiLlama(resp, min_apy, min_tvl, chains) ==
    IF resp.status # "ok" THEN <<>>
    ELSE LET Keep(pool) == /\ DictGet(pool, "apy", 0) >= min_apy
                           /\ DictGet(pool, "tvlUsd", 0) >= min_tvl
                           /\ Lower(DictGet(pool, "chain", "")) \in chains
                           /\ DictGet(pool, "exposure", "") # "multi"
             Make(pool) == [protocol |-> DictGet(pool, "project", "Unknown"),
                            pool_name |-> DictGet(pool, "symbol", ""),
                            apy |-> DictGet(pool, "apy", 0),
                            tvl |-> DictGet(pool, "tvlUsd", 0),
                            risk_score |-> CalculateRiskScore(pool),
                            category |-> CategorizePool(pool),
                            chain |-> Lower(DictGet(pool, "chain", "")),
                            contract_address |-> DictGet(pool, "pool", ""),
                            minimum_deposit |-> 0,
                            lock_period |-> 0]
             kept == SelectSeq(resp.items, Keep)
         IN  Slice([i \in 1..Len(kept) |-> Make(kept[i])], DefiLlamaLimit)

(* YieldScanner._scan_yearn_yields *)
ScanYearn(resp, min_apy, min_tvl) ==
    IF resp.status # "ok" THEN <<>>
    ELSE LET Keep(vault) == /\ vault.net_apy # 0
                            /\ vault.net_apy * 100 >= min_apy
                            /\ vault.tvl >= min_tvl
             Make(vault) == [protocol |-> "Yearn",
                             pool_name |-> vault.name,
                             apy |-> vault.net_apy * 100,
                             tvl |-> vault.tvl,
                             risk_score |-> 3,
                             category |-> "yield_farming",
                             chain |-> "ethereum",
                             contract_address |-> vault.address,
                             minimum_deposit |-> 0,
                             lock_period |-> 0]
             kept == SelectSeq(resp.items, Keep)
         IN  [i \in 1..Len(kept) |-> Make(kept[i])]

(* YieldScanner._scan_beefy_yields: /vaults, /apy and /tvl are fetched in  *)
(* turn; a status other than 200 on any of them, or an exception, gives [] *)
ScanBeefy(resp, min_apy, min_tvl, chains) ==
    IF resp.status # "ok" THEN <<>>
    ELSE LET Apy(vault) == IF vault.id \in DOMAIN resp.apy
                           THEN resp.apy[vault.id] * 100 ELSE 0
             Tvl(vault) == IF vault.id \in DOMAIN resp.tvl
                           THEN resp.tvl[vault.id] ELSE 0
             Keep(vault) == /\ Lower(vault.chain) \in chains
                            /\ Apy(vault) >= min_apy
                            /\ Tvl(vault) >= min_tvl
             Make(vault) == [protocol |-> "Beefy",
                             pool_name |-> vault.name,
                             apy |-> Apy(vault),
                             tvl |-> Tvl(vault),
                             risk_score |-> CalculateBeefyRiskScore(vault),
                             category |-> "yield_farming",
                             chain |-> Lower(vault.chain),
                             contract_address |-> vault.earnContractAddress,
                             minimum_deposit |-> 0,
                             lock_period |-> 0]
             kept == SelectSeq(resp.items, Keep)
         IN  Slice([i \in 1..Len(kept) |-> Make(kept[i])], BeefyLimit)

(* The coroutine of one source, as scan_yield_opportunities creates it. *)
ScanSource(src, resp, p) ==
    CASE src = "defillama" ->
            ScanDefiLlama(resp, p.min_apy, p.min_tvl, EffectiveChains(p.chains))
      [] src = "yearn" ->
            ScanYearn(resp, p.min_apy, p.min_tvl)
      [] src = "beefy" ->
            ScanBeefy(resp, p.min_apy, p.min_tvl, EffectiveChains(p.chains))

(***************************************************************************)
(* asyncio.gather of the tasks with return_exceptions=True: the results in *)
(* the order of `tasks`, whatever the order the coroutines finished in.     *)
(***************************************************************************)
GatherAsCompleted(res, order) == [i \in 1..Len(order) |-> res[order[i]]]
Gather(res, order) == [i \in 1..Len(Sources) |-> res[Sources[i]]]

(* The loop over `results`: every result that is a list is appended. *)
RECURSIVE ExtendAll(_)
ExtendAll(results) ==
    IF results = <<>> THEN <<>>
    ELSE (IF Head(results).is_list THEN Head(results).list ELSE <<>>)
         \o ExtendAll(Tail(results))

Failed(src) == payload[src].status # "ok"

ExtendAllOrAbort(results) ==
    IF \E src \in SourceSet : Failed(src) THEN <<>> ELSE ExtendAll(results)
CollectOpportunities(results) == ExtendAll(results)

DedupKey(opp) == <<opp.contract_address, opp.pool_name>>

(* YieldScanner._deduplicate_opportunities: the loop appends a record when *)
(* its key is not yet in `seen`, that is when no earlier record of the     *)
(* list has its key; the records kept stay in the order of the list.       *)
KeepAllOpportunities(opps) == opps
DeduplicateOpportunities(opps) ==
    LET indexed == [i \in 1..Len(opps) |-> [i |-> i, opp |-> opps[i]]]
        kept    == SelectSeq(indexed,
                      LAMBDA x : \A j \in 1..(x.i - 1) :
                                    DedupKey(opps[j]) # DedupKey(x.opp))
    IN  [k \in 1..Len(kept) |-> kept[k].opp]

(* the records of xs whose apy is among apys: those of the greatest apy in *)
(* the order they have in xs, then those of the next apy, and so on        *)
RECURSIVE ByApyDesc(_, _)
ByApyDesc(xs, apys) ==
    IF apys = {} THEN <<>>
    ELSE LET top == CHOOSE a \in apys : \A b \in apys : a >= b
         IN  SelectSeq(xs, LAMBDA x : x.apy = top) \o ByApyDesc(xs, apys \ {top})

(* sorted(xs, key=lambda x: x.apy, reverse=True).  Python's sort is        *)
(* stable, also with reverse=True: records of one apy keep the order they  *)
(* have in xs.                                                             *)
SortedByApyDesc(xs) == ByApyDesc(xs, {xs[i].apy : i \in 1..Len(xs)})

(* scan_yield_opportunities from the gathered results on *)
Aggregate(results) ==
    SortedByApyDesc(DeduplicateOpportunities(CollectOpportunities(results)))

(* ---- inputs ---- *)
PoolA == [project |-> "aave", symbol |-> "USDC", apy |-> 500, tvlUsd |-> 2000000,
          chain |-> "Ethereum", exposure |-> "single", pool |-> "0xA", ageDays |-> 400]
PoolDai == [project |-> "convex", symbol |-> "yvDAI", apy |-> 700, tvlUsd |-> 900000,
            chain |-> "Polygon", exposure |-> "single", pool |-> "0xB", ageDays |-> 10]
DefiLlamaPools == {PoolA, PoolDai}

VaultB == [name |-> "yvDAI", address |-> "0xB", net_apy |-> 10, tvl |-> 50000000]
VaultUsdc == [name |-> "yvUSDC", address |-> "0xC", net_apy |-> 5, tvl |-> 3000000]
YearnVaults == {VaultB, VaultUsdc}

BeefyDai == [id |-> "beefy-dai", chain |-> "polygon", name |-> "yvDAI",
             earnContractAddress |-> "0xB", stratType |-> "lp",
             platformId |-> "quickswap"]
BeefyCake == [id |-> "cake-bnb", chain |-> "BSC", name |-> "cake-bnb",
              earnContractAddress |-> "0xD", stratType |-> "single",
              platformId |-> "pancakeswap"]
BeefyVaults == {BeefyDai, BeefyCake}
BeefyApy == [id \in {"beefy-dai", "cake-bnb"} |-> IF id = "beefy-dai" THEN 5 ELSE 20]
BeefyTvl == [id \in {"beefy-dai"} |-> 4000000]

ListsOf(S) == UNION { [1..n -> S] : n \in 0..MaxItems }

Responses(src) ==
    CASE src = "defillama" ->
            { [status |-> "ok", items |-> l] : l \in ListsOf(DefiLlamaPools) }
            \cup { [status |-> st, items |-> <<>>] : st \in {"http_error", "raise"} }
      [] src = "yearn" ->
            { [status |-> "ok", items |-> l] : l \in ListsOf(YearnVaults) }
            \cup { [status |-> st, items |-> <<>>] : st \in {"http_error", "raise"} }
      [] src = "beefy" ->
            { [status |-> "ok", items |-> l, apy |-> BeefyApy, tvl |-> BeefyTvl] :
                  l \in ListsOf(BeefyVaults) }
            \cup { [status |-> st, items |-> <<>>, apy |-> BeefyApy, tvl |-> BeefyTvl] :
                  st \in {"http_error", "raise"} }

(* request.args of the endpoint: min_apy (default 1.0), min_tvl (default   *)
(* 100000) and the chains, none given meaning the scanner's default list.  *)
Requests ==
    { [min_apy |-> a, min_tvl |-> 100000, chains |-> c] :
          a \in {100, 600}, c \in {{}, {"polygon"}} }

NoResult == [is_list |-> TRUE, list |-> <<>>]
NoResponse == [success |-> FALSE, opportunities |-> <<>>, count |-> 0]

AggInit ==
    /\ params \in Requests
    /\ payload \in { f \in [SourceSet -> UNION { Responses(src) : src \in SourceSet }] :
                        \A src \in SourceSet : f[src] \in Responses(src) }
    /\ task = [src \in SourceSet |-> "pending"]
    /\ taskRes = [src \in SourceSet |-> NoResult]
    /\ arrival = <<>>
    /\ apc = "scanning"
    /\ out = <<>>
    /\ response = NoResponse

(* One source's coroutine runs to its end. *)
Complete(src) ==
    /\ apc = "scanning"
    /\ task[src] = "pending"
    /\ task' = [task EXCEPT ![src] = "done"]
    /\ taskRes' = [taskRes EXCEPT ![src] =
                      [is_list |-> TRUE, list |-> ScanSource(src, payload[src], params)]]
    /\ arrival' = Append(arrival, src)
    /\ UNCHANGED <<params, payload, apc, out, response>>
    /\ UNCHANGED nonAggVars

(* gather returns; the results are merged, deduplicated, sorted, returned. *)
Join ==
    /\ apc = "scanning"
    /\ \A src \in SourceSet : task[src] = "done"
    /\ out' = Aggregate(Gather(taskRes, arrival))
    /\ apc' = "done"
    /\ UNCHANGED <<params, payload, task, taskRes, arrival, response>>
    /\ UNCHANGED nonAggVars

(* get_yield_opportunities: the scan's list as JSON. *)
Respond ==
    /\ apc = "done"
    /\ response' = [success |-> TRUE, opportunities |-> out, count |-> Len(out)]
    /\ apc' = "responded"
    /\ UNCHANGED <<params, payload, task, taskRes, arrival, out>>
    /\ UNCHANGED nonAggVars

AggNext ==
    \/ \E src \in SourceSet : Complete(src)
    \/ Join
    \/ Respond

----------------------------------------------------------------------------
(***************************************************************************)
(* Long payloads.  The same scan, started on payloads that are empty or    *)
(* longer than the slices the sources apply: n admissible records of n     *)
(* different dedup keys per source.                                        *)
(***************************************************************************)
(* the most records the slices of the sources let through together *)
MaxOutput == DefiLlamaLimit + BeefyLimit

ManyPools(n) ==
    [i \in 1..n |->
        [project |-> "aave", symbol |-> "P" \o ToString(i), apy |-> 500,
         tvlUsd |-> 2000000, chain |-> "Ethereum", exposure |-> "single",
         pool |-> "0xL" \o ToString(i), ageDays |-> 400]]

ManyVaults(n) ==
    [i \in 1..n |->
        [name |-> "yv" \o ToString(i), address |-> "0xY" \o ToString(i),
         net_apy |-> 5, tvl |-> 3000000]]

ManyBeefyVaults(n) ==
    [i \in 1..n |->
        [id |-> "moo" \o ToString(i), chain |-> "polygon",
         name |-> "moo" \o ToString(i),
         earnContractAddress |-> "0xM" \o ToString(i),
         stratType |-> "single", platformId |-> "beefy"]]

ManyBeefyIds(n) == {"moo" \o ToString(i) : i \in 1..n}

LongResponses(src) ==
    CASE src = "defillama" ->
            { [status |-> "ok", items |-> ManyPools(n)] :
                  n \in {0, 1, DefiLlamaLimit + 1} }
      [] src = "yearn" ->
            { [status |-> "ok", items |-> ManyVaults(n)] :
                  n \in {0, 1, MaxOutput + 1} }
      [] src = "beefy" ->
            { [status |-> "ok", items |-> ManyBeefyVaults(n),
               apy |-> [id \in ManyBeefyIds(n) |-> 5],
               tvl |-> [id \in ManyBeefyIds(n) |-> 4000000]] :
                  n \in {0, 1, BeefyLimit + 1} }

LimitInit ==
    /\ params = [min_apy |-> 100, min_tvl |-> 100000, chains |-> {}]
    /\ payload \in { f \in [SourceSet -> UNION { LongResponses(src) : src \in SourceSet }] :
                        \A src \in SourceSet : f[src] \in LongResponses(src) }
    /\ task = [src \in SourceSet |-> "pending"]
    /\ taskRes = [src \in SourceSet |-> NoResult]
    /\ arrival = <<>>
    /\ apc = "scanning"
    /\ out = <<>>
    /\ response = NoResponse

----------------------------------------------------------------------------
(***************************************************************************)
(* Risk scoring.  One scan over payloads of a single record per source,    *)
(* the DeFiLlama pool and the Beefy vault ranging over dicts in which the  *)
(* fields the scores read are present or missing.  poolMeta.ageDays is     *)
(* carried as the field ageDays; it is missing when poolMeta or its        *)
(* ageDays is.                                                             *)
(***************************************************************************)
(* the marker of a field left out of a dict *)
NoInt == -1
NoStr == "<missing>"

TvlChoices      == {NoInt, 0, 500000, 1000000, 2000000, 100000000, 200000000}
AgeChoices      == {NoInt, 10, 30, 100, 365, 400}
ProjectChoices  == {NoStr, "Aave", "curve", "convex"}
SymbolChoices   == {NoStr, "USDC", "UNI-LP", "WETH-USDC"}
StratChoices    == {NoStr, "LP", "single"}
PlatformChoices == {NoStr, "quickswap", "beefy"}

(* a pool of the DeFiLlama payload with the chosen fields *)
PoolDict(tvl, age, project, symbol) ==
    [k \in {"apy", "chain", "pool", "exposure"}
           \cup (IF tvl = NoInt THEN {} ELSE {"tvlUsd"})
           \cup (IF age = NoInt THEN {} ELSE {"ageDays"})
           \cup (IF project = NoStr THEN {} ELSE {"project"})
           \cup (IF symbol = NoStr THEN {} ELSE {"symbol"}) |->
        CASE k = "apy"      -> 500
          [] k = "chain"    -> "Ethereum"
          [] k = "pool"     -> "0xE"
          [] k = "exposure" -> "single"
          [] k = "tvlUsd"   -> tvl
          [] k = "ageDays"  -> age
          [] k = "project"  -> project
          [] k = "symbol"   -> symbol]

(* a vault of the Beefy payload with the chosen fields *)
VaultDict(strat, platform) ==
    [k \in {"id", "chain", "name", "earnContractAddress"}
           \cup (IF strat = NoStr THEN {} ELSE {"stratType"})
           \cup (IF platform = NoStr THEN {} ELSE {"platformId"}) |->
        CASE k = "id"                  -> "beefy-dai"
          [] k = "chain"               -> "polygon"
          [] k = "name"                -> "mooDAI"
          [] k = "earnContractAddress" -> "0xF"
          [] k = "stratType"           -> strat
          [] k = "platformId"          -> platform]

PoolDicts ==
    { PoolDict(t, a, p, s) : t \in TvlChoices, a \in AgeChoices,
                             p \in ProjectChoices, s \in SymbolChoices }

VaultDicts == { VaultDict(st, pl) : st \in StratChoices, pl \in PlatformChoices }

(* a request that filters nothing out *)
RiskRequest == [min_apy |-> 0, min_tvl |-> 0, chains |-> {}]

RiskPayload(src) ==
    CASE src = "defillama" -> [status |-> "ok", items |-> <<riskPool>>]
      [] src = "yearn"     -> [status |-> "ok", items |-> <<VaultB>>]
      [] src = "beefy"     -> [status |-> "ok", items |-> <<riskVault>>,
                               apy |-> BeefyApy, tvl |-> BeefyTvl]

RiskInit ==
    /\ riskPool \in PoolDicts
    /\ riskVault \in VaultDicts
    /\ riskOut = <<>>
    /\ riskPc = "input"

(* scan_yield_opportunities over the three payloads *)
RiskScan ==
    /\ riskPc = "input"
    /\ riskOut' = Aggregate([i \in 1..Len(Sources) |->
                     [is_list |-> TRUE,
                      list |-> ScanSource(Sources[i], RiskPayload(Sources[i]),
                                          RiskRequest)]])
    /\ riskPc' = "scanned"
    /\ UNCHANGED <<riskPool, riskVault>>
    /\ UNCHANGED nonRiskVars

RiskNext == RiskScan

----------------------------------------------------------------------------
(***************************************************************************)
(* DatabaseManager (data/storage/database.py) over PostgreSQL.             *)
(*                                                                         *)
(* A table is the set of its committed rows.  store_yield_data and         *)
(* store_price_data each take a pooled connection and hand their records   *)
(* to executemany, which runs the INSERT ... ON CONFLICT statement once    *)
(* per record.  No asyncpg release is pinned: from 0.22 on executemany     *)
(* runs the whole batch in one implicit transaction, before that every     *)
(* statement commits on its own; atomicBatch says which build runs.        *)
(* A row version written by an open transaction is locked: a statement of  *)
(* another connection that conflicts with it waits for the transaction to  *)
(* end.  Columns that behave alike are represented by one of them:         *)
(* category stands for the yield columns the statement does not update,    *)
(* volume for the price columns it updates next to price.                  *)
(***************************************************************************)
MaxCalls == 2

Connections == {1, 2}

(* SQL NULL, also Python's None as a column value *)
Null == "NULL"

(* the dicts handed to store_yield_data *)
Y1a == [protocol |-> "aave", pool_name |-> "USDC", apy |-> 500,
        tvl |-> 2000000, risk_score |-> 3, category |-> "lending",
        chain |-> "ethereum", last_updated |-> "2024-01-01T00:00"]

Y1b == [protocol |-> "aave", pool_name |-> "USDC", apy |-> 700,
        tvl |-> 900000, risk_score |-> 7, category |-> "stable",
        chain |-> "ethereum", last_updated |-> "2024-01-01T00:00"]

Y2  == [protocol |-> "yearn", pool_name |-> "yvDAI", apy |-> 1000,
        tvl |-> 50000000, risk_score |-> 4, category |-> "yield_farming",
        chain |-> "ethereum", last_updated |-> "2024-01-01T00:00"]

(* a dict without pool_name and without risk_score *)
YN  == [protocol |-> "beefy", apy |-> 1200, tvl |-> 500000,
        category |-> "farming", chain |-> "polygon", last_updated |-> "2024-01-01T00:00"]

(* the lists handed to store_yield_data: one key written twice with        *)
(* different payloads, two keys written in either order, a dict without    *)
(* pool_name, and the empty list *)
YieldBatches == {<<>>, <<Y1a>>, <<Y1b>>, <<Y1a, Y2>>, <<Y2, Y1b>>, <<YN>>}

(* the dicts handed to store_price_data *)
P1a == [symbol |-> "ETH", price |-> 2000, volume |-> 10,
        timestamp |-> "2024-01-01T00:00",
        source |-> "coingecko"]

P1b == [symbol |-> "ETH", price |-> 2100, volume |-> 20,
        timestamp |-> "2024-01-01T00:00",
        source |-> "coingecko"]

(* the lists handed to store_price_data *)
PriceBatches == {<<P1a>>, <<P1b>>}

(* the tuple store_yield_data builds for one dict *)
YieldRecord(data) ==
    [protocol     |-> data.protocol,
     pool_name    |-> DictGet(data, "pool_name", Null),
     apy          |-> data.apy,
     tvl          |-> DictGet(data, "tvl", 0),
     risk_score   |-> DictGet(data, "risk_score", 5),
     category     |-> DictGet(data, "category", Null),
     chain        |-> data.chain,
     last_updated |-> data.last_updated]

(* the tuple store_price_data builds for one dict *)
PriceRecord(data) ==
    [symbol    |-> data.symbol,
     price     |-> data.price,
     volume    |-> DictGet(data, "volume", 0),
     timestamp |-> data.timestamp,
     source    |-> DictGet(data, "source", "unknown")]

TableOf(fn) ==
    IF fn = "store_yield_data" THEN "yield_data" ELSE "price_data"

(* the columns of each table's UNIQUE constraint *)
KeyColumns(tbl) ==
    IF tbl = "yield_data"
    THEN {"protocol", "pool_name", "chain", "last_updated"}
    ELSE {"symbol", "timestamp", "source"}

(* the columns ON CONFLICT ... DO UPDATE SET assigns from EXCLUDED *)
UpdatedColumns(tbl) ==
    IF tbl = "yield_data"
    THEN {"apy", "tvl", "risk_score"}
    ELSE {"price", "volume"}

(* the natural key of a row or record, as its writer sees it *)
KeyOf(tbl, r) == [col \in KeyColumns(tbl) |-> r[col]]

(* The arbiter of ON CONFLICT is the UNIQUE index: a row conflicts with    *)
(* the proposed record when all key columns are equal, and in SQL a NULL   *)
(* is equal to nothing, itself included.                                   *)
Conflicts(tbl, row, rec) ==
    \A col \in KeyColumns(tbl) :
        /\ rec[col] # Null
        /\ row[col] = rec[col]

(* the row the INSERT adds: id from the SERIAL sequence, created_at from   *)
(* DEFAULT CURRENT_TIMESTAMP *)
InsertedRow(rec, id, ts) ==
    [col \in DOMAIN rec \cup {"id", "created_at"} |->
        IF col = "id" THEN id
        ELSE IF col = "created_at" THEN ts
        ELSE rec[col]]

(* the row DO UPDATE SET leaves: only the listed columns change *)
UpdatedRow(tbl, row, rec) ==
    [col \in DOMAIN row |->
        IF col \in UpdatedColumns(tbl) THEN rec[col] ELSE row[col]]

NoCall ==
    [pc |-> "idle", fn |-> "", records |-> <<>>, i |-> 0, t0 |-> 0,
     peers |-> {}, ret |-> -1]

(* the connection is inside executemany *)
Executing(c) == conn[c].pc = "exec"

(* the record of the statement connection c runs next *)
NextRecord(c) == conn[c].records[conn[c].i + 1]

(* the rows the next statement of connection c sees: the committed rows    *)
(* and, in their place, the versions its own transaction has written *)
Visible(c) ==
    LET tbl == TableOf(conn[c].fn)
        own == {row.id : row \in pend[c]}
    IN  {row \in tables[tbl] : row.id \notin own} \cup pend[c]

(* connection c's next statement waits for the open transaction of c2 *)
WaitsFor(c, c2) ==
    /\ c2 # c
    /\ Executing(c)
    /\ conn[c].i < Len(conn[c].records)
    /\ conn[c2].fn = conn[c].fn
    /\ \E row \in pend[c2] :
          Conflicts(TableOf(conn[c].fn), row, NextRecord(c))

(* the upserts of one committed transaction, in statement order, recorded  *)
(* in the history of the latest upsert per table and natural key *)
RECURSIVE Recorded(_, _, _)
Recorded(hist, tbl, recs) ==
    IF recs = <<>> THEN hist
    ELSE LET rec  == Head(recs)
             kept == {u \in hist :
                        ~(u.tbl = tbl /\ KeyOf(tbl, u.rec) = KeyOf(tbl, rec))}
         IN  Recorded(kept \cup {[tbl |-> tbl, rec |-> rec]}, tbl, Tail(recs))

DbInit ==
    /\ atomicBatch \in BOOLEAN
    /\ tables = [tbl \in {"yield_data", "price_data"} |-> {}]
    /\ nextId = [tbl \in {"yield_data", "price_data"} |-> 1]
    /\ dbNow = 0
    /\ conn = [c \in Connections |-> NoCall]
    /\ pend = [c \in Connections |-> {}]
    /\ calls = 0
    /\ lastUpsert = {}

(* The start of store_yield_data / store_price_data: an empty list         *)
(* returns 0 at once, otherwise pool.acquire hands out a free connection   *)
(* (the free one with the lowest number: which one it is makes no          *)
(* difference), the records are built and executemany begins.              *)
Store(c, fn, data) ==
    /\ calls < MaxCalls
    /\ ~Executing(c)
    /\ \A c2 \in Connections : c2 < c => Executing(c2)
    /\ calls' = calls + 1
    /\ dbNow' = dbNow + 1
    /\ IF data = <<>>
       THEN conn' = [conn EXCEPT ![c] =
                [NoCall EXCEPT !.pc = "done", !.fn = fn, !.t0 = dbNow',
                               !.ret = 0]]
       ELSE LET others == {c2 \in Connections \ {c} : Executing(c2)}
                recs   == [i \in 1..Len(data) |->
                             IF fn = "store_yield_data"
                             THEN YieldRecord(data[i])
                             ELSE PriceRecord(data[i])]
            IN  conn' = [c2 \in Connections |->
                    IF c2 = c
                    THEN [NoCall EXCEPT !.pc = "exec", !.fn = fn,
                                        !.records = recs, !.t0 = dbNow',
                                        !.peers = others]
                    ELSE IF c2 \in others
                    THEN [conn[c2] EXCEPT !.peers = @ \cup {c}]
                    ELSE conn[c2]]
    /\ UNCHANGED <<atomicBatch, tables, nextId, pend, lastUpsert>>
    /\ UNCHANGED nonDbVars

StoreYieldData(c, yield_data) == Store(c, "store_yield_data", yield_data)

StorePriceData(c, price_data) == Store(c, "store_price_data", price_data)

(* One statement of executemany: INSERT ... ON CONFLICT (key) DO UPDATE.   *)
(* It waits while another open transaction holds a conflicting row.        *)
ExecuteRow(c) ==
    /\ Executing(c)
    /\ conn[c].i < Len(conn[c].records)
    /\ \A c2 \in Connections : ~WaitsFor(c, c2)
    /\ LET tbl == TableOf(conn[c].fn)
           rec == NextRecord(c)
           hit == {row \in Visible(c) : Conflicts(tbl, row, rec)}
           ts  == IF atomicBatch THEN conn[c].t0 ELSE dbNow
           new == IF hit = {}
                  THEN InsertedRow(rec, nextId[tbl], ts)
                  ELSE UpdatedRow(tbl, CHOOSE row \in hit : TRUE, rec)
       IN  /\ nextId' = [nextId EXCEPT ![tbl] = @ + 1]
           /\ IF atomicBatch
              THEN /\ pend' = [pend EXCEPT ![c] =
                          {row \in @ : row.id # new.id} \cup {new}]
                   /\ UNCHANGED <<tables, lastUpsert>>
              ELSE /\ tables' = [tables EXCEPT ![tbl] =
                          {row \in @ : row.id # new.id} \cup {new}]
                   /\ lastUpsert' = Recorded(lastUpsert, tbl, <<rec>>)
                   /\ UNCHANGED pend
    /\ conn' = [conn EXCEPT ![c].i = @ + 1]
    /\ UNCHANGED <<atomicBatch, dbNow, calls>>
    /\ UNCHANGED nonDbVars

(* executemany returns (committing its transaction, if it runs in one)     *)
(* and the call returns len(records).                                      *)
Finish(c) ==
    /\ Executing(c)
    /\ conn[c].i = Len(conn[c].records)
    /\ LET tbl == TableOf(conn[c].fn)
           own == {row.id : row \in pend[c]}
       IN  IF atomicBatch
           THEN /\ tables' = [tables EXCEPT ![tbl] =
                       {row \in @ : row.id \notin own} \cup pend[c]]
                /\ lastUpsert' = Recorded(lastUpsert, tbl, conn[c].records)
           ELSE UNCHANGED <<tables, lastUpsert>>
    /\ pend' = [pend EXCEPT ![c] = {}]
    /\ conn' = [conn EXCEPT ![c].pc = "done",
                            ![c].ret = Len(conn[c].records)]
    /\ UNCHANGED <<atomicBatch, nextId, dbNow, calls>>
    /\ UNCHANGED nonDbVars

(* Two transactions each wait for a row the other holds: PostgreSQL ends   *)
(* one of them with a deadlock error, its writes are rolled back, and the  *)
(* except clause of the call logs and re-raises.                           *)
DeadlockAbort(c) ==
    /\ \E c2 \in Connections : WaitsFor(c, c2) /\ WaitsFor(c2, c)
    /\ pend' = [pend EXCEPT ![c] = {}]
    /\ conn' = [conn EXCEPT ![c].pc = "raised"]
    /\ UNCHANGED <<atomicBatch, tables, nextId, dbNow, calls, lastUpsert>>
    /\ UNCHANGED nonDbVars

DbNext ==
    \/ \E c \in Connections, data \in YieldBatches :
          StoreYieldData(c, data)
    \/ \E c \in Connections, data \in PriceBatches :
          StorePriceData(c, data)
    \/ \E c \in Connections : ExecuteRow(c)
    \/ \E c \in Connections : Finish(c)
    \/ \E c \in Connections : DeadlockAbort(c)

----------------------------------------------------------------------------
(***************************************************************************)
(* The calls of CacheManager on a backend that may fail.  Every method     *)
(* runs inside `try: ... except Exception: log; return <fallback>`; each   *)
(* Redis command a call issues either answers or raises (connection lost,  *)
(* timeout).  A call is one step here: the interleaving of two callers is  *)
(* the matter of SpecCache.                                                *)
(***************************************************************************)

(* the keys in Redis: _generate_key("price", "BTC") and so on *)
OpKeys == {"price:BTC", "price:ETH", "gas_prices:1"}

(* the arguments given to invalidate_pattern and flush_cache *)
Patterns == {"price:", "price:*", "price:?TC", "*"}
NoPattern == ""            \* flush_cache(): pattern=None; "" is as falsy
FlushPatterns == {NoPattern, "price:*"}

(* the characters of the strings above *)
Chars(str) ==
    CASE str = "price:BTC"    -> <<"p", "r", "i", "c", "e", ":", "B", "T", "C">>
      [] str = "price:ETH"    -> <<"p", "r", "i", "c", "e", ":", "E", "T", "H">>
      [] str = "gas_prices:1" -> <<"g", "a", "s", "_", "p", "r", "i", "c", "e", "s",
                                   ":", "1">>
      [] str = "price:"       -> <<"p", "r", "i", "c", "e", ":">>
      [] str = "price:*"      -> <<"p", "r", "i", "c", "e", ":", "*">>
      [] str = "price:?TC"    -> <<"p", "r", "i", "c", "e", ":", "?", "T", "C">>
      [] str = "*"            -> <<"*">>
      [] str = ""             -> <<>>

(* str.startswith(pfx) *)
StartsWith(str, pfx) ==
    LET cs == Chars(str)
        cp == Chars(pfx)
    IN  Len(cp) <= Len(cs) /\ SubSeq(cs, 1, Len(cp)) = cp

(***************************************************************************)
(* Redis KEYS pattern: the pattern is a glob that must match the whole     *)
(* key; `*` stands for any run of characters, `?` for any one character,   *)
(* every other character for itself.  (The patterns above hold no `[` and  *)
(* no backslash, the two other metacharacters of Redis.)                   *)
(***************************************************************************)
RECURSIVE GlobMatch(_, _)
GlobMatch(pat, str) ==
    IF pat = <<>> THEN str = <<>>
    ELSE IF Head(pat) = "*"
         THEN GlobMatch(Tail(pat), str)
              \/ (str # <<>> /\ GlobMatch(pat, Tail(str)))
    ELSE IF str = <<>> THEN FALSE
    ELSE (Head(pat) = "?" \/ Head(pat) = Head(str))
         /\ GlobMatch(Tail(pat), Tail(str))

(* await self.redis.keys(pattern): the live keys the glob matches *)
RedisKeys(pattern) ==
    { k \in OpKeys : Live(k) /\ GlobMatch(Chars(pattern), Chars(k)) }

(* await self.redis.delete of the keys: the keyspace afterwards *)
RedisDelete(keys) == [k \in OpKeys |-> IF k \in keys THEN Absent ELSE store[k]]

(* the value the calls store, and the ttls: 0, which SETEX rejects, and a *)
(* positive one                                                           *)
OpValue == VCleanDict
OpTtls  == {0, MaxTtl}

NoOp == [fn |-> "none", arg |-> "", connected |-> FALSE, raised |-> FALSE,
         escaped |-> FALSE, ret |-> PNone, before |-> [k \in OpKeys |-> Absent],
         after |-> [k \in OpKeys |-> Absent],
         at |-> 0]

(* The record of a call: what it was given, whether self.redis was set,    *)
(* whether a Redis command it issued raised, what it returned, whether an  *)
(* exception left the method, and the keyspace before and after it.        *)
Called(fn, arg, raised, result, after) ==
    [fn |-> fn, arg |-> arg, connected |-> redis, raised |-> redis /\ raised,
     escaped |-> FALSE, ret |-> result, before |-> store, after |-> after,
     at |-> now]

OpFrame ==
    /\ UNCHANGED <<redis, now, pc, req, ret, got, lastSet>>
    /\ UNCHANGED <<keyVars, aggVars, riskVars, dbVars, serveVars, moreVars>>

OpsInit ==
    /\ redis = FALSE
    /\ store = [k \in OpKeys |-> Absent]
    /\ now = 0
    /\ pc = [c \in Callers |-> "idle"]
    /\ req = [c \in Callers |-> NoReq]
    /\ ret = [c \in Callers |-> PNone]
    /\ got = NoGet
    /\ lastSet = [k \in Keys |-> NoSet]
    /\ op = NoOp

(* CacheManager.get; `raises`: redis.get raises *)
OpGet(k, raises) ==
    /\ op' = Called("get", k, raises,
                    IF redis /\ ~raises THEN CacheGet(k, PNone) ELSE PNone,
                    store)
    /\ UNCHANGED store
    /\ OpFrame

(* CacheManager.set; `raises`: redis.setex raises for a reason of the      *)
(* backend (it raises by itself on a ttl that is not positive)             *)
OpSet(k, v, ttl, raises) ==
    LET done  == SetSucceeds(ttl) /\ ~raises
        after == IF done THEN RedisSetex(k, ttl, Serialize(v)) ELSE store
    IN  /\ op' = Called("set", k, raises \/ ttl <= 0,
                        IF done THEN PTrue ELSE PFalse, after)
        /\ store' = after
        /\ OpFrame

(* CacheManager.delete; `raises`: redis.delete raises *)
OpDelete(k, raises) ==
    LET done  == redis /\ ~raises
        after == IF done THEN RedisDelete({k}) ELSE store
    IN  /\ op' = Called("delete", k, raises,
                        IF done /\ Live(k) THEN PTrue ELSE PFalse, after)
        /\ store' = after
        /\ OpFrame

(* CacheManager.exists; `raises`: redis.exists raises *)
OpExists(k, raises) ==
    /\ op' = Called("exists", k, raises,
                    IF redis /\ ~raises /\ Live(k) THEN PTrue ELSE PFalse,
                    store)
    /\ UNCHANGED store
    /\ OpFrame

(***************************************************************************)
(* CacheManager.set_if_not_exists: `if await self.exists(key): return      *)
(* False`, then `return await self.set(key, value, ttl)`.  self.exists     *)
(* answers False when redis.exists raised, and the method goes on to set.  *)
(***************************************************************************)
OpSetIfNotExists(k, v, ttl, raisesExists, raisesSetex) ==
    LET exists == redis /\ ~raisesExists /\ Live(k)
        done   == ~exists /\ SetSucceeds(ttl) /\ ~raisesSetex
        after  == IF done THEN RedisSetex(k, ttl, Serialize(v)) ELSE store
    IN  /\ op' = Called("set_if_not_exists", k,
                        raisesExists \/ (~exists /\ (raisesSetex \/ ttl <= 0)),
                        IF done THEN PTrue ELSE PFalse, after)
        /\ store' = after
        /\ OpFrame

(* the keyspace after invalidate_pattern(pattern) and the count it returns *)
InvalidatePattern(pattern, raisesKeys, raisesDelete) ==
    LET keys == IF redis /\ ~raisesKeys THEN RedisKeys(pattern) ELSE {}
        done == keys # {} /\ ~raisesDelete
    IN  [after   |-> IF done THEN RedisDelete(keys) ELSE store,
         deleted |-> IF done THEN Cardinality(keys) ELSE 0,
         raised  |-> raisesKeys \/ (keys # {} /\ raisesDelete)]

(* CacheManager.invalidate_pattern *)
OpInvalidatePattern(pattern, raisesKeys, raisesDelete) ==
    LET r == InvalidatePattern(pattern, raisesKeys, raisesDelete)
    IN  /\ op' = Called("invalidate_pattern", pattern, r.raised,
                        PInt(ToString(r.deleted)), r.after)
        /\ store' = r.after
        /\ OpFrame

(***************************************************************************)
(* CacheManager.flush_cache: invalidate_pattern when a pattern is given,   *)
(* FLUSHDB otherwise; True unless FLUSHDB raised (invalidate_pattern       *)
(* swallows what its commands raise).                                      *)
(***************************************************************************)
OpFlushCache(pattern, raisesKeys, raisesDelete) ==
    LET r     == InvalidatePattern(pattern, raisesKeys, raisesDelete)
        flush == pattern = NoPattern
        done  == redis /\ (~flush \/ ~raisesDelete)
        after == IF ~redis THEN store
                 ELSE IF ~flush THEN r.after
                 ELSE IF raisesDelete THEN store
                 ELSE [k \in OpKeys |-> Absent]
    IN  /\ op' = Called("flush_cache", pattern,
                        IF flush THEN raisesDelete ELSE r.raised,
                        IF done THEN PTrue ELSE PFalse, after)
        /\ store' = after
        /\ OpFrame

(* CacheManager.initialize *)
OpInitialize ==
    /\ ~redis
    /\ redis' = TRUE
    /\ op' = NoOp
    /\ UNCHANGED <<store, now, pc, req, ret, got, lastSet>>
    /\ UNCHANGED <<keyVars, aggVars, riskVars, dbVars, serveVars, moreVars>>

(* One second passes; Redis drops the keys whose expiry time is reached. *)
OpTick ==
    /\ now < MaxTime
    /\ now' = now + 1
    /\ store' = [k \in OpKeys |->
                    IF store[k].present /\ now + 1 >= store[k].exp
                    THEN Absent ELSE store[k]]
    /\ op' = NoOp
    /\ UNCHANGED <<redis, pc, req, ret, got, lastSet>>
    /\ UNCHANGED <<keyVars, aggVars, riskVars, dbVars, serveVars, moreVars>>

OpsNext ==
    \/ OpInitialize
    \/ \E k \in OpKeys, raises \in BOOLEAN : OpGet(k, raises)
    \/ \E k \in OpKeys, ttl \in OpTtls, raises \in BOOLEAN :
          OpSet(k, OpValue, ttl, raises)
    \/ \E k \in OpKeys, raises \in BOOLEAN : OpDelete(k, raises)
    \/ \E k \in OpKeys, raises \in BOOLEAN : OpExists(k, raises)
    \/ \E k \in OpKeys, ttl \in OpTtls,
          raisesExists \in BOOLEAN, raisesSetex \in BOOLEAN :
          OpSetIfNotExists(k, OpValue, ttl, raisesExists, raisesSetex)
    \/ \E pattern \in Patterns, raisesKeys \in BOOLEAN, raisesDelete \in BOOLEAN :
          OpInvalidatePattern(pattern, raisesKeys, raisesDelete)
    \/ \E pattern \in FlushPatterns,
          raisesKeys \in BOOLEAN, raisesDelete \in BOOLEAN :
          OpFlushCache(pattern, raisesKeys, raisesDelete)
    \/ OpTick

----------------------------------------------------------------------------
(***************************************************************************)
(* Successive requests to GET /api/v1/data/yield-opportunities, with the   *)
(* cache beside them.  The handler get_yield_opportunities parses the      *)
(* arguments, runs scanner.scan_yield_opportunities and answers with the   *)
(* list as JSON; it makes no call on cache_manager.  The entries of the    *)
(* category are written by CacheManager.cache_yield_opportunities.         *)
(***************************************************************************)
MaxRequests == 2

(* default_ttls['yield_data'], in seconds *)
YieldDataTtl == 300

(* the arguments of the requests: min_apy 1.0 or 6.0, the rest by default *)
ServeRequests ==
    { [min_apy |-> a, min_tvl |-> 100000, chains |-> {}] : a \in {100, 600} }

(* json.dumps(sorted(filters.items()), sort_keys=True) of the filters of a *)
(* request                                                                 *)
FiltersJson(p) ==
    "[[\"chains\", []], [\"min_apy\", "
    \o (IF p.min_apy = 100 THEN "1.0" ELSE "6.0")
    \o "], [\"min_tvl\", 100000.0]]"

(* _generate_key("yield_opportunities", filters) *)
FiltersKey(p) == "yield_opportunities" \o ":" \o Md5Hex(FiltersJson(p))

ServeKeys == { FiltersKey(p) : p \in ServeRequests }

(* what the upstream APIs answer while the requests are served *)
ServePayloads ==
    { [src \in SourceSet |->
          CASE src = "defillama" -> [status |-> "ok", items |-> l]
            [] src = "yearn"     -> [status |-> "ok", items |-> <<VaultB>>]
            [] src = "beefy"     -> [status |-> "raise", items |-> <<>>,
                                     apy |-> BeefyApy, tvl |-> BeefyTvl]] :
      l \in {<<>>, <<PoolA>>} }

(* what each _scan_* coroutine returns for a request *)
ScanResults(p) ==
    [src \in SourceSet |->
        [is_list |-> TRUE, list |-> ScanSource(src, payload[src], p)]]

(* the list of dicts a caller hands to cache_yield_opportunities *)
OpportunitiesValue(opps) ==
    PList([i \in 1..Len(opps) |->
              PDict(<<PPair(PStr("protocol"), PStr(opps[i].protocol)),
                      PPair(PStr("pool_name"), PStr(opps[i].pool_name)),
                      PPair(PStr("apy"), PInt(ToString(opps[i].apy)))>>)])

ServeInit ==
    /\ redis = TRUE
    /\ store = [k \in ServeKeys |-> Absent]
    /\ now = 0
    /\ pc = [c \in Callers |-> "idle"]
    /\ req = [c \in Callers |-> NoReq]
    /\ ret = [c \in Callers |-> PNone]
    /\ got = NoGet
    /\ lastSet = [k \in Keys |-> NoSet]
    /\ params = [min_apy |-> 0, min_tvl |-> 0, chains |-> {}]
    /\ payload \in ServePayloads
    /\ task = [src \in SourceSet |-> "done"]
    /\ taskRes = [src \in SourceSet |-> NoResult]
    /\ arrival = <<>>
    /\ apc = "idle"
    /\ out = <<>>
    /\ response = NoResponse
    /\ served = <<>>

(***************************************************************************)
(* One request, from its arrival to its answer.  The history notes what    *)
(* the cache held for the request's filters when it arrived (`hit`),       *)
(* whether the scanner ran (`scanned`), and whether the cache holds an     *)
(* entry for the filters when the answer leaves (`stored`).                *)
(***************************************************************************)
ServeRequest(p) ==
    /\ Len(served) < MaxRequests
    /\ LET results == ScanResults(p)
           opps    == Aggregate(Gather(results, arrival))
           body    == [success |-> TRUE, opportunities |-> opps,
                       count |-> Len(opps)]
       IN  /\ params' = p
           /\ task' = [src \in SourceSet |-> "done"]
           /\ taskRes' = results
           /\ out' = opps
           /\ response' = body
           /\ apc' = "responded"
           /\ served' = Append(served,
                               [params |-> p, at |-> now,
                                hit |-> redis /\ Live(FiltersKey(p)),
                                scanned |-> TRUE,
                                stored |-> redis /\ Live(FiltersKey(p)),
                                body |-> body])
    /\ UNCHANGED <<payload, arrival>>
    /\ UNCHANGED <<cacheVars, keyVars, riskVars, dbVars, opVars, moreVars>>

(* CacheManager.cache_yield_opportunities(filters, opportunities, ttl),    *)
(* ttl = 0 standing for ttl=None: the default of the data type             *)
CacheYieldOpportunities(p, ttl) ==
    LET seconds == IF ttl = 0 THEN YieldDataTtl ELSE ttl
        opps    == Aggregate(Gather(ScanResults(p), arrival))
    IN  /\ SetSucceeds(seconds)
        /\ store' = RedisSetex(FiltersKey(p), seconds,
                               Serialize(OpportunitiesValue(opps)))
        /\ UNCHANGED <<redis, now, pc, req, ret, got, lastSet>>
        /\ UNCHANGED nonCacheVars

(* One second passes; Redis drops the keys whose expiry time is reached. *)
ServeTick ==
    /\ now < MaxTime
    /\ now' = now + 1
    /\ store' = [k \in ServeKeys |->
                    IF store[k].present /\ now + 1 >= store[k].exp
                    THEN Absent ELSE store[k]]
    /\ UNCHANGED <<redis, pc, req, ret, got, lastSet>>
    /\ UNCHANGED nonCacheVars

ServeNext ==
    \/ \E p \in ServeRequests : ServeRequest(p)
    \/ \E p \in ServeRequests, ttl \in 0..MaxTtl : CacheYieldOpportunities(p, ttl)
    \/ ServeTick

----------------------------------------------------------------------------
(***************************************************************************)
(* DatabaseManager: the stores of one row, the retention cleanup and the   *)
(* price query.  The clock counts days.  Each call is one step here (the   *)
(* interleaving of two executemany calls is the matter of SpecDb); any     *)
(* statement of a call may raise (connection lost, statement rejected).    *)
(* The connection runs in autocommit: a statement that has returned is     *)
(* committed, whatever a later statement of the same call does.            *)
(***************************************************************************)
MaxWrites == 2

(* the days the clock passes through *)
Days == {0, 100, 200}

StoreTables ==
    {"price_data", "yield_data", "ai_predictions", "portfolio_snapshots",
     "market_data"}

(* the tables of cleanup_old_data in the order of its DELETE statements *)
CleanupOrder == <<"price_data", "yield_data", "ai_predictions", "portfolio_snapshots">>

(* `portfolio_cutoff = datetime.now() - timedelta(days=180)` *)
PortfolioDaysToKeep == 180

(* cleanup_old_data(days_to_keep: int = 90) *)
DefaultDaysToKeep == 90

(* the days_to_keep callers pass *)
DaysToKeepChoices == {DefaultDaysToKeep, 365}

(* get_price_history(symbol, days: int = 30) *)
DefaultHistoryDays == 30

(* the symbols callers pass to store_price_data and get_price_history *)
PriceSymbols == {"ETH", "eth"}

(* str.upper() on the symbols *)
Upper(str) ==
    CASE str = "eth" -> "ETH"
      [] str = "btc" -> "BTC"
      [] OTHER      -> str

(* what a call gives back: an int, a bool, a dict of counts, a frame of    *)
(* rows, or an exception                                                   *)
Raised           == [kind |-> "raise", n |-> 0, b |-> FALSE, counts |-> <<>>, rows |-> {}]
ReturnedInt(n)   == [kind |-> "int", n |-> n, b |-> FALSE, counts |-> <<>>, rows |-> {}]
ReturnedBool(b)  == [kind |-> "bool", n |-> 0, b |-> b, counts |-> <<>>, rows |-> {}]
ReturnedDict(cs) == [kind |-> "dict", n |-> 0, b |-> FALSE, counts |-> cs, rows |-> {}]
ReturnedFrame(rs) == [kind |-> "frame", n |-> 0, b |-> FALSE, counts |-> <<>>, rows |-> rs]

EmptyTables == [tbl \in StoreTables |-> {}]

NoDbOp == [fn |-> "none", arg |-> <<>>, failed |-> FALSE, outcome |-> ReturnedInt(0),
           before |-> EmptyTables, at |-> 0]

DbCalled(fn, arg, failed, outcome) ==
    [fn |-> fn, arg |-> arg, failed |-> failed, outcome |-> outcome,
     before |-> tables, at |-> dbNow]

StoreFrame ==
    /\ UNCHANGED <<atomicBatch, dbNow, conn, pend, lastUpsert>>
    /\ UNCHANGED <<cacheVars, keyVars, aggVars, riskVars, opVars, serveVars,
                   collectVars, rateVars, breakerVars>>

StoreInit ==
    /\ atomicBatch \in BOOLEAN
    /\ tables = EmptyTables
    /\ nextId = [tbl \in StoreTables |-> 1]
    /\ dbNow = 0
    /\ conn = [c \in Connections |-> NoCall]
    /\ pend = [c \in Connections |-> {}]
    /\ calls = 0
    /\ lastUpsert = {}
    /\ dbOp = NoDbOp

(* INSERT of one row: id from the sequence, created_at from CURRENT_TIMESTAMP *)
Inserted(tbl, rec) == tables[tbl] \cup {InsertedRow(rec, nextId[tbl], dbNow)}

(* INSERT ... ON CONFLICT (key) DO UPDATE SET of one row *)
Upserted(tbl, rec) ==
    LET hit == {row \in tables[tbl] : KeyOf(tbl, row) = KeyOf(tbl, rec)}
    IN  IF hit = {} THEN Inserted(tbl, rec)
        ELSE (tables[tbl] \ hit) \cup {UpdatedRow(tbl, row, rec) : row \in hit}

(* store_portfolio_snapshot: a plain INSERT; True, or False when it raised *)
StorePortfolioSnapshot(portfolio_id, snapshot_data, fails) ==
    LET rec == [portfolio_id |-> portfolio_id,
                total_value  |-> snapshot_data.total_value,
                timestamp    |-> snapshot_data.timestamp]
    IN  /\ calls < MaxWrites
        /\ calls' = calls + 1
        /\ dbOp' = DbCalled("store_portfolio_snapshot", <<portfolio_id, snapshot_data>>,
                            fails, ReturnedBool(~fails))
        /\ IF fails THEN UNCHANGED <<tables, nextId>>
           ELSE /\ tables' = [tables EXCEPT !["portfolio_snapshots"] =
                                 Inserted("portfolio_snapshots", rec)]
                /\ nextId' = [nextId EXCEPT !["portfolio_snapshots"] = @ + 1]
        /\ StoreFrame

(* store_market_data: an upsert on (timestamp); True, or False when it raised *)
StoreMarketData(market_data, fails) ==
    LET rec  == [total_market_cap |-> market_data.total_market_cap,
                 timestamp        |-> market_data.timestamp]
        hit  == {row \in tables["market_data"] : row.timestamp = rec.timestamp}
        rows == IF hit = {} THEN Inserted("market_data", rec)
                ELSE (tables["market_data"] \ hit)
                     \cup {[row EXCEPT !.total_market_cap = rec.total_market_cap] :
                              row \in hit}
    IN  /\ calls < MaxWrites
        /\ calls' = calls + 1
        /\ dbOp' = DbCalled("store_market_data", <<market_data>>, fails,
                            ReturnedBool(~fails))
        /\ IF fails THEN UNCHANGED <<tables, nextId>>
           ELSE /\ tables' = [tables EXCEPT !["market_data"] = rows]
                /\ nextId' = [nextId EXCEPT !["market_data"] = @ + 1]
        /\ StoreFrame

(* store_ai_prediction: a plain INSERT with timestamp datetime.now() *)
StoreAiPrediction(model_type, confidence, fails) ==
    LET rec == [model_type |-> model_type, confidence |-> confidence,
                timestamp |-> dbNow]
    IN  /\ calls < MaxWrites
        /\ calls' = calls + 1
        /\ dbOp' = DbCalled("store_ai_prediction", <<model_type, confidence>>, fails,
                            ReturnedBool(~fails))
        /\ IF fails THEN UNCHANGED <<tables, nextId>>
           ELSE /\ tables' = [tables EXCEPT !["ai_predictions"] =
                                 Inserted("ai_predictions", rec)]
                /\ nextId' = [nextId EXCEPT !["ai_predictions"] = @ + 1]
        /\ StoreFrame

(* the table after the statements of an executemany, one after the other *)
RECURSIVE UpsertedAll(_, _, _, _)
UpsertedAll(tbl, rows, id, recs) ==
    IF recs = <<>> THEN rows
    ELSE LET rec == Head(recs)
             hit == {row \in rows : KeyOf(tbl, row) = KeyOf(tbl, rec)}
             new == IF hit = {} THEN rows \cup {InsertedRow(rec, id, dbNow)}
                    ELSE (rows \ hit) \cup {UpdatedRow(tbl, row, rec) : row \in hit}
         IN  UpsertedAll(tbl, new, id + 1, Tail(recs))

(***************************************************************************)
(* store_price_data / store_yield_data of a list, its statement number     *)
(* failAt raising (0: none).  An empty list returns 0; a failure is logged *)
(* and raised again; otherwise len(records) is returned.  When the batch   *)
(* is not one transaction the statements before the failing one stay.      *)
(***************************************************************************)
StoreBatch(fn, data, failAt) ==
    LET tbl    == TableOf(fn)
        recs   == [i \in 1..Len(data) |->
                      IF fn = "store_yield_data" THEN YieldRecord(data[i])
                      ELSE PriceRecord(data[i])]
        failed == failAt > 0
        done   == IF ~failed THEN recs
                  ELSE IF atomicBatch THEN <<>>
                  ELSE SubSeq(recs, 1, failAt - 1)
    IN  /\ calls < MaxWrites
        /\ failAt <= Len(data)
        /\ calls' = calls + 1
        /\ dbOp' = DbCalled(fn, <<data>>, failed,
                            IF failed THEN Raised ELSE ReturnedInt(Len(recs)))
        /\ tables' = [tables EXCEPT ![tbl] = UpsertedAll(tbl, @, nextId[tbl], done)]
        /\ nextId' = [nextId EXCEPT ![tbl] = @ + Len(done)]
        /\ StoreFrame

(* what cleanup_old_data returns from its except clause: `return {}` *)
CleanupFailureAsZeros ==
    ReturnedDict([tbl \in {CleanupOrder[i] : i \in 1..Len(CleanupOrder)} |-> 0])
CleanupFailure == ReturnedDict(<<>>)

(* the rows a `DELETE FROM tbl WHERE created_at < cutoff` removes *)
OlderThan(rows, cutoff) == {row \in rows : row.created_at < cutoff}

(* the cutoff cleanup_old_data applies to a table *)
Cutoff(tbl, days_to_keep) ==
    IF tbl = "portfolio_snapshots" THEN dbNow - PortfolioDaysToKeep
    ELSE dbNow - days_to_keep

(***************************************************************************)
(* cleanup_old_data(days_to_keep), its statement number failAt raising     *)
(* (0: none).  The four DELETEs run in turn; the counts are returned, or   *)
(* {} when a statement raised, the DELETEs before it staying committed.    *)
(***************************************************************************)
CleanupOldData(days_to_keep, failAt) ==
    LET failed == failAt > 0
        ran(i) == ~failed \/ i < failAt
        after  == [tbl \in StoreTables |->
                      IF \E i \in 1..Len(CleanupOrder) :
                            CleanupOrder[i] = tbl /\ ran(i)
                      THEN tables[tbl] \ OlderThan(tables[tbl], Cutoff(tbl, days_to_keep))
                      ELSE tables[tbl]]
        counts == [tbl \in {CleanupOrder[i] : i \in 1..Len(CleanupOrder)} |->
                      Cardinality(OlderThan(tables[tbl], Cutoff(tbl, days_to_keep)))]
    IN  /\ dbOp' = DbCalled("cleanup_old_data", <<days_to_keep>>, failed,
                            IF failed THEN CleanupFailure ELSE ReturnedDict(counts))
        /\ tables' = after
        /\ UNCHANGED <<nextId, calls>>
        /\ StoreFrame

(* get_price_history(symbol, days): the rows of symbol.upper() whose       *)
(* timestamp is not before now - days; an empty frame when it raised       *)
GetPriceHistory(symbol, days, fails) ==
    LET rows == {row \in tables["price_data"] :
                    row.symbol = Upper(symbol) /\ row.timestamp >= dbNow - days}
    IN  /\ dbOp' = DbCalled("get_price_history", <<symbol, days>>, fails,
                            ReturnedFrame(IF fails THEN {} ELSE
                                {[timestamp |-> row.timestamp, price |-> row.price,
                                  volume |-> row.volume] : row \in rows}))
        /\ UNCHANGED <<tables, nextId, calls>>
        /\ StoreFrame

(* Days pass. *)
AdvanceClock ==
    /\ \E d \in Days : d > dbNow /\ dbNow' = d
    /\ dbOp' = NoDbOp
    /\ UNCHANGED <<atomicBatch, tables, nextId, conn, pend, calls, lastUpsert>>
    /\ UNCHANGED <<cacheVars, keyVars, aggVars, riskVars, opVars, serveVars,
                   collectVars, rateVars, breakerVars>>

(* ---- inputs ---- *)
SnapshotData == { [total_value |-> 10, timestamp |-> 0] }
MarketData   == { [total_market_cap |-> 1, timestamp |-> 0] }
PriceData(symbol, ts) ==
    [symbol |-> symbol, price |-> 2000, volume |-> 10, timestamp |-> ts,
     source |-> "coingecko"]
PriceLists ==
    { <<PriceData(s, dbNow)>> : s \in PriceSymbols }
    \cup { <<>>, <<PriceData("ETH", dbNow), PriceData("BTC", dbNow)>> }

(* the statement of cleanup_old_data that raises: none, or the third *)
CleanupFailures == {0, 3}

StoreNext ==
    \/ \E d \in SnapshotData, fails \in BOOLEAN :
          StorePortfolioSnapshot("p1", d, fails)
    \/ \E d \in MarketData, fails \in BOOLEAN : StoreMarketData(d, fails)
    \/ \E fails \in BOOLEAN : StoreAiPrediction("risk", 1, fails)
    \/ \E data \in PriceLists, failAt \in 0..2 :
          StoreBatch("store_price_data", data, failAt)
    \/ \E failAt \in 0..1 : StoreBatch("store_yield_data", <<Y2>>, failAt)
    \/ \E days_to_keep \in DaysToKeepChoices, failAt \in CleanupFailures :
          CleanupOldData(days_to_keep, failAt)
    \/ \E symbol \in PriceSymbols, fails \in BOOLEAN :
          GetPriceHistory(symbol, DefaultHistoryDays, fails)
    \/ AdvanceClock

----------------------------------------------------------------------------
(***************************************************************************)
(* The fetches of the collectors against upstream APIs that may fail.      *)
(* Every fetch has one shape: `try:` the request, the test of the status,  *)
(* response.json() and a loop over the records of the payload that builds  *)
(* the list to return; `except Exception:` log and return the empty value. *)
(* What leaves the try block is a value or an exception of some class; the *)
(* handler turns the exceptions it catches into the empty value.           *)
(***************************************************************************)

MaxRecords == 2

(* the outcome of a block of code: a value, or an exception of class exc *)
Returns(value) == [exc |-> "", value |-> value]
Raises(cls)    == [exc |-> cls, value |-> <<>>]

(* the classes of the exceptions raised below; each derives from Exception *)
ExceptionSubclasses ==
    {"ClientConnectionError", "TimeoutError", "ContentTypeError",
     "AttributeError", "TypeError", "ValueError"}

(* `except Exception as e:` catches the class *)
CaughtClientErrorOnly(cls) == cls = "ClientConnectionError"
Caught(cls) == cls \in ExceptionSubclasses

(* try: <block> except Exception: log; return [] (or {}) -- what the call  *)
(* gives its caller: the class raised inside, the class that left the      *)
(* call ("" when none), and the value returned                             *)
Handled(outcome) ==
    [raised  |-> outcome.exc,
     escaped |-> IF outcome.exc # "" /\ ~Caught(outcome.exc) THEN outcome.exc ELSE "",
     value   |-> IF outcome.exc = "" THEN outcome.value ELSE <<>>]

(***************************************************************************)
(* What an upstream does with one request: the connection fails, the       *)
(* request times out (ClientTimeout(total=30)), or a response comes with a *)
(* status and a body that is JSON or not.                                  *)
(***************************************************************************)
NoBody == [shape |-> "none", items |-> <<>>]

Upstreams(bodies) ==
    { [failure |-> "none", status |-> 200, body |-> b] : b \in bodies }
    \cup { [failure |-> "none", status |-> s, body |-> NoBody] : s \in {204, 500} }
    \cup { [failure |-> f, status |-> 0, body |-> NoBody] : f \in {"connect", "timeout"} }
    \cup { [failure |-> "invalid_json", status |-> 200, body |-> NoBody] }

(* `async with self.session.get(url) as response`, `if response.status !=  *)
(* 200: return []`, `data = await response.json()`: the outcome when no    *)
(* body is parsed                                                          *)
HasBody(up) == up.failure = "none" /\ up.status = 200
WithoutBody(up) ==
    CASE up.failure = "connect" -> Raises("ClientConnectionError")
      [] up.failure = "timeout" -> Raises("TimeoutError")
      [] up.status # 200        -> Returns(<<>>)
      [] OTHER                  -> Raises("ContentTypeError")

(* the class raised by the first record that raises, "" when none does *)
FirstError(errs) ==
    IF \A i \in 1..Len(errs) : errs[i] = "" THEN ""
    ELSE errs[CHOOSE i \in 1..Len(errs) :
                 errs[i] # "" /\ \A j \in 1..(i - 1) : errs[j] = ""]

(***************************************************************************)
(* A pool of the DeFiLlama payload: its keys and values, and the keys      *)
(* whose value is the JSON null.  In the loop of _scan_defillama_yields    *)
(*   pool.get('chain', '').lower()  raises AttributeError on None,         *)
(*   apy >= min_apy                 raises TypeError on None,              *)
(*   tvl >= min_tvl                 raises TypeError on None, when it is   *)
(*                                  evaluated (`and` stops at a False).    *)
(***************************************************************************)
PoolError(pool, min_apy) ==
    IF "chain" \in pool.nulls THEN "AttributeError"
    ELSE IF "apy" \in pool.nulls THEN "TypeError"
    ELSE IF DictGet(pool.fields, "apy", 0) >= min_apy /\ "tvlUsd" \in pool.nulls
         THEN "TypeError"
    ELSE ""

(* the try block of YieldScanner._scan_defillama_yields *)
TryScanDefiLlama(up, min_apy, min_tvl, chains) ==
    IF ~HasBody(up) THEN WithoutBody(up)
    ELSE IF up.body.shape # "dict" THEN Raises("AttributeError")   \* data.get
    ELSE LET pools == up.body.items
             err   == FirstError([i \in 1..Len(pools) |-> PoolError(pools[i], min_apy)])
         IN  IF err # "" THEN Raises(err)
             ELSE Returns(ScanDefiLlama(
                      [status |-> "ok",
                       items |-> [i \in 1..Len(pools) |-> pools[i].fields]],
                      min_apy, min_tvl, chains))

(* YieldScanner._scan_defillama_yields *)
ScanDefiLlamaYields(up, p) ==
    Handled(TryScanDefiLlama(up, p.min_apy, p.min_tvl, EffectiveChains(p.chains)))

(***************************************************************************)
(* The values of a market of the Aave payload: a string, the JSON null, or *)
(* no such key.  float(s) raises ValueError on a string that is no number  *)
(* and TypeError on None.                                                  *)
(***************************************************************************)
JStr(s)  == [t |-> "str", s |-> s]
JNull    == [t |-> "null", s |-> ""]
JMissing == [t |-> "missing", s |-> ""]

(* bool(v) of market.get(key): None and '' are falsy *)
Truthy(v) == v.t = "str" /\ v.s # ""

NumericStrings == {"0", "5", "1000"}

FloatError(v) ==
    CASE v.t = "null" -> "TypeError"
      [] v.t = "str" /\ v.s \notin NumericStrings -> "ValueError"
      [] OTHER -> ""

(* float(v); market.get('totalLiquidity', 0) gives 0 for a missing key *)
Float(v) ==
    CASE v.t = "str" /\ v.s = "5"    -> 5
      [] v.t = "str" /\ v.s = "1000" -> 1000
      [] OTHER                       -> 0

(* `if market.get('liquidityRate') and float(market['liquidityRate']) > 0` *)
MarketError(market) ==
    IF ~Truthy(market.liquidityRate) THEN ""
    ELSE IF FloatError(market.liquidityRate) # "" THEN FloatError(market.liquidityRate)
    ELSE IF ~(Float(market.liquidityRate) > 0) THEN ""
    ELSE FloatError(market.totalLiquidity)

MarketKept(market) ==
    Truthy(market.liquidityRate) /\ Float(market.liquidityRate) > 0

(* ProtocolData(...) of a market; apy = float(liquidityRate) / 1e25 * 100, *)
(* kept here in units of 1e-23 percent                                     *)
ProtocolDataOf(market) ==
    [name |-> <<"Aave", market.symbol>>, chain |-> "ethereum",
     tvl |-> Float(market.totalLiquidity), apy |-> Float(market.liquidityRate),
     category |-> "lending"]

(* the try block of DeFiDataCollector._collect_aave_data *)
TryCollectAave(up) ==
    IF ~HasBody(up) THEN WithoutBody(up)
    ELSE IF up.body.shape # "list" THEN Raises("AttributeError")   \* market.get
    ELSE LET markets == up.body.items
             err     == FirstError([i \in 1..Len(markets) |-> MarketError(markets[i])])
             kept    == SelectSeq(markets, MarketKept)
         IN  IF err # "" THEN Raises(err)
             ELSE Returns([i \in 1..Len(kept) |-> ProtocolDataOf(kept[i])])

(* DeFiDataCollector._collect_aave_data *)
CollectAaveData(up) == Handled(TryCollectAave(up))

(* PriceFeedCollector._symbols_to_coingecko_ids, one symbol *)
CoingeckoId(symbol) ==
    CASE Upper(symbol) = "ETH" -> "ethereum"
      [] Upper(symbol) = "BTC" -> "bitcoin"
      [] OTHER                 -> Lower(symbol)

(***************************************************************************)
(* The try block of PriceFeedCollector.get_token_prices.  The body is a    *)
(* JSON object from token ids to price objects, some of them null          *)
(* (price_info.get raises AttributeError), or the JSON null (`token_id in  *)
(* data` raises TypeError).  The value returned is a dict by symbol.       *)
(***************************************************************************)
TryGetTokenPrices(symbols, up) ==
    IF ~HasBody(up) THEN WithoutBody(up)
    ELSE IF up.body.shape = "null" THEN
            IF symbols = <<>> THEN Returns(<<>>) ELSE Raises("TypeError")
    ELSE LET data  == up.body.items
             found == {i \in 1..Len(symbols) : CoingeckoId(symbols[i]) \in DOMAIN data}
         IN  IF \E i \in found : data[CoingeckoId(symbols[i])].null
             THEN Raises("AttributeError")
             ELSE Returns([s \in {symbols[i] : i \in found} |->
                            [symbol |-> s,
                             price |-> DictGet(data[CoingeckoId(s)], "usd", 0)]])

(* PriceFeedCollector.get_token_prices *)
GetTokenPrices(symbols, up) == Handled(TryGetTokenPrices(symbols, up))

(***************************************************************************)
(* YieldScanner.scan_yield_opportunities: the three scans are gathered     *)
(* with return_exceptions=True, the results that are lists are joined,     *)
(* deduplicated and sorted, all inside `try: ... except Exception`.        *)
(***************************************************************************)
AsResult(scan) ==
    [is_list |-> scan.escaped = "", list |-> scan.value]

ScanYieldOpportunities(p, upLlama, respYearn, respBeefy) ==
    Handled(Returns(Aggregate(
        <<AsResult(ScanDefiLlamaYields(upLlama, p)),
          [is_list |-> TRUE, list |-> ScanYearn(respYearn, p.min_apy, p.min_tvl)],
          [is_list |-> TRUE,
           list |-> ScanBeefy(respBeefy, p.min_apy, p.min_tvl,
                              EffectiveChains(p.chains))]>>)))

(***************************************************************************)
(* DeFiDataCollector.collect_protocol_data(protocols): one task per name   *)
(* that is 'aave' in lower case (the names given here ask for no other     *)
(* collector), gathered with return_exceptions=True; each task makes its   *)
(* own request.                                                            *)
(***************************************************************************)
CollectProtocolData(protocols, ups) ==
    LET tasks   == SelectSeq([i \in 1..Len(protocols) |->
                                 [name |-> protocols[i], i |-> i]],
                             LAMBDA t : Lower(t.name) = "aave")
        results == [k \in 1..Len(tasks) |-> AsResult(CollectAaveData(ups[tasks[k].i]))]
    IN  Handled(Returns(ExtendAll(results)))

(* ---- inputs ---- *)
LlamaPools ==
    {[fields |-> PoolA, nulls |-> {}], [fields |-> PoolDai, nulls |-> {}],
     [fields |-> PoolA, nulls |-> {"chain"}],
     [fields |-> PoolDai, nulls |-> {"tvlUsd"}]}

RecordLists(S) == UNION { [1..n -> S] : n \in 0..MaxRecords }

LlamaBodies ==
    { [shape |-> "dict", items |-> l] : l \in RecordLists(LlamaPools) }
    \cup {[shape |-> "list", items |-> <<>>]}

AaveMarkets ==
    {[symbol |-> "USDC", liquidityRate |-> JStr("5"), totalLiquidity |-> JStr("1000")],
     [symbol |-> "WETH", liquidityRate |-> JStr("0"), totalLiquidity |-> JNull],
     [symbol |-> "USDT", liquidityRate |-> JStr("n/a"), totalLiquidity |-> JStr("1000")],
     [symbol |-> "WBTC", liquidityRate |-> JStr("5"), totalLiquidity |-> JNull]}

AaveBodies ==
    { [shape |-> "list", items |-> l] : l \in RecordLists(AaveMarkets) }
    \cup {[shape |-> "dict", items |-> <<>>]}

PriceInfos == {[null |-> FALSE, usd |-> 2000], [null |-> TRUE]}

PriceBodies ==
    { [shape |-> "dict", items |-> d] :
         d \in UNION { [ids -> PriceInfos] : ids \in SUBSET {"ethereum", "bitcoin"} } }
    \cup {[shape |-> "null", items |-> <<>>]}

SymbolLists == {<<"ETH">>, <<"eth", "BTC">>, <<>>}

ProtocolLists == {<<"aave">>, <<"Aave", "convex">>, <<"convex">>}

ScanParams == { [min_apy |-> a, min_tvl |-> 100000, chains |-> {}] : a \in {100, 600} }

YearnResponses ==
    {[status |-> "ok", items |-> <<VaultB>>], [status |-> "raise", items |-> <<>>]}

BeefyResponses ==
    {[status |-> "http_error", items |-> <<>>, apy |-> BeefyApy, tvl |-> BeefyTvl]}

NoParams == [min_apy |-> 0, min_tvl |-> 0, chains |-> {}]

NoFetch == [fn |-> "none", arg |-> <<>>,
            upstream |-> [failure |-> "none", status |-> 0, body |-> NoBody],
            p |-> NoParams, raised |-> "", escaped |-> "", value |-> <<>>]

(* the record of a fetch: the call, what the upstream did, and what the    *)
(* caller got                                                              *)
Fetched(fn, arg, up, p, given) ==
    [fn |-> fn, arg |-> arg, upstream |-> up, p |-> p,
     raised |-> given.raised, escaped |-> given.escaped, value |-> given.value]

CollectFrame ==
    UNCHANGED <<cacheVars, keyVars, aggVars, riskVars, dbVars, opVars, serveVars,
                storeVars, rateVars, breakerVars>>

CollectInit == fetch = NoFetch

FetchDefiLlama(up, p) ==
    /\ fetch' = Fetched("_scan_defillama_yields", <<>>, up, p,
                        ScanDefiLlamaYields(up, p))
    /\ CollectFrame

FetchAave(up) ==
    /\ fetch' = Fetched("_collect_aave_data", <<>>, up, NoParams, CollectAaveData(up))
    /\ CollectFrame

FetchTokenPrices(symbols, up) ==
    /\ fetch' = Fetched("get_token_prices", symbols, up, NoParams,
                        GetTokenPrices(symbols, up))
    /\ CollectFrame

FetchYieldOpportunities(p, upLlama, respYearn, respBeefy) ==
    /\ fetch' = Fetched("scan_yield_opportunities", <<>>, upLlama, p,
                        ScanYieldOpportunities(p, upLlama, respYearn, respBeefy))
    /\ CollectFrame

FetchProtocolData(protocols, up) ==
    /\ fetch' = Fetched("collect_protocol_data", protocols, up, NoParams,
                        CollectProtocolData(protocols,
                                            [i \in 1..Len(protocols) |-> up]))
    /\ CollectFrame

CollectNext ==
    \/ \E up \in Upstreams(LlamaBodies), p \in ScanParams : FetchDefiLlama(up, p)
    \/ \E up \in Upstreams(AaveBodies) : FetchAave(up)
    \/ \E symbols \in SymbolLists, up \in Upstreams(PriceBodies) :
          FetchTokenPrices(symbols, up)
    \/ \E p \in ScanParams, up \in Upstreams(LlamaBodies),
          respYearn \in YearnResponses, respBeefy \in BeefyResponses :
          FetchYieldOpportunities(p, up, respYearn, respBeefy)
    \/ \E protocols \in ProtocolLists, up \in Upstreams(AaveBodies) :
          FetchProtocolData(protocols, up)

----------------------------------------------------------------------------
(***************************************************************************)
(* The write operations of CacheManager and the expiry each gives to the   *)
(* entry it writes: set and set_if_not_exists, the cache_* helpers, which  *)
(* call set with the data_type of their category, batch_cache_prices,      *)
(* which pipelines its own SETEX commands, and increment (INCRBY).         *)
(***************************************************************************)

MaxEntries == 1
MaxCount   == 2

(* self.default_ttls, and the fallback of default_ttls.get(data_type, 300) *)
PriceDataTtl     == 60
MarketDataTtl    == 180
AiPredictionsTtl == 3600
PortfolioDataTtl == 300
GasPricesTtl     == 120
FallbackTtl      == 300

DefaultTtlsFlat(data_type) == FallbackTtl
DefaultTtls(data_type) ==
    CASE data_type = "price_data"     -> PriceDataTtl
      [] data_type = "yield_data"     -> YieldDataTtl
      [] data_type = "market_data"    -> MarketDataTtl
      [] data_type = "ai_predictions" -> AiPredictionsTtl
      [] data_type = "portfolio_data" -> PortfolioDataTtl
      [] data_type = "gas_prices"     -> GasPricesTtl
      [] OTHER                        -> FallbackTtl

(* ttl: Optional[int] = None *)
None       == [given |-> FALSE, n |-> 0]
Seconds(n) == [given |-> TRUE, n |-> n]
TtlArgs    == {None, Seconds(0), Seconds(30)}

(* Redis TTL of a key that has no expiry *)
NoExpiry == -1

(* an identifier that is a string *)
StrId(s) == [kind |-> "str", items |-> <<>>, s |-> s]

CounterKey == "counter:requests"

(* the keys the calls below write *)
TtlFilters == [min_apy |-> 100, min_tvl |-> 100000, chains |-> {}]
TtlKeys ==
    {"price:ETH", "price:BTC", FiltersKey(TtlFilters), "portfolio_analysis:p1",
     "ai_prediction_risk:h1", "market_data:latest", "gas_prices:ethereum",
     CounterKey}

(* Redis holds the entry at time t: it is there and its expiry time, when  *)
(* it has one, is not reached                                              *)
Retained(entry, t) == entry.present /\ (entry.exp = NoExpiry \/ t < entry.exp)

EntriesAt(space, t) == {k \in DOMAIN space : Retained(space[k], t)}

(* the bound on the number of entries: a write of a new key needs room *)
Room(keys) == Cardinality(EntriesAt(store, now) \cup keys) <= MaxEntries

(* The record of a write: as Called, with the ttl argument and the key. *)
Wrote(fn, key, ttl, raised, result, after) ==
    [fn |-> fn, arg |-> key, ttl |-> ttl, connected |-> redis,
     raised |-> redis /\ raised, escaped |-> FALSE, ret |-> result,
     before |-> store, after |-> after, at |-> now]

(* CacheManager.set(key, value, ttl, data_type), called as fn *)
SetAs(fn, key, value, ttl, data_type) ==
    LET seconds == IF ttl.given THEN ttl.n ELSE DefaultTtls(data_type)
        done    == SetSucceeds(seconds)
        after   == IF done THEN RedisSetex(key, seconds, Serialize(value)) ELSE store
    IN  /\ Room({key})
        /\ op' = Wrote(fn, key, ttl, seconds <= 0, IF done THEN PTrue ELSE PFalse,
                       after)
        /\ store' = after
        /\ OpFrame

TtlSet(key, value, ttl) == SetAs("set", key, value, ttl, "default")

(* CacheManager.set_if_not_exists *)
TtlSetIfNotExists(key, value, ttl) ==
    IF redis /\ Retained(store[key], now)
    THEN /\ op' = Wrote("set_if_not_exists", key, ttl, FALSE, PFalse, store)
         /\ UNCHANGED store
         /\ OpFrame
    ELSE SetAs("set_if_not_exists", key, value, ttl, "default")

CachePriceData(symbol, price_data, ttl) ==
    SetAs("cache_price_data", GenerateKey("price", StrId(Upper(symbol))),
          price_data, ttl, "price_data")

CacheOpportunities(filters, opportunities, ttl) ==
    SetAs("cache_yield_opportunities", FiltersKey(filters), opportunities, ttl,
          "yield_data")

CachePortfolioAnalysis(portfolio_id, analysis, ttl) ==
    SetAs("cache_portfolio_analysis",
          GenerateKey("portfolio_analysis", StrId(portfolio_id)), analysis, ttl,
          "portfolio_data")

CacheAiPrediction(model_type, input_hash, prediction, ttl) ==
    SetAs("cache_ai_prediction",
          GenerateKey("ai_prediction_" \o model_type, StrId(input_hash)),
          prediction, ttl, "ai_predictions")

CacheMarketData(market_data, ttl) ==
    SetAs("cache_market_data", "market_data:latest", market_data, ttl,
          "market_data")

CacheGasPrices(chain, gas_data, ttl) ==
    SetAs("cache_gas_prices", GenerateKey("gas_prices", StrId(Lower(chain))),
          gas_data, ttl, "gas_prices")

(***************************************************************************)
(* CacheManager.batch_cache_prices: one SETEX per symbol in a pipeline,    *)
(* with `ttl or self.default_ttls.get('price_data', 60)` seconds; the      *)
(* result maps every symbol to True, or to False when there is no          *)
(* connection.                                                             *)
(***************************************************************************)
RECURSIVE SetexAll(_, _, _, _)
SetexAll(space, keys, seconds, blob) ==
    IF keys = <<>> THEN space
    ELSE SetexAll([space EXCEPT ![Head(keys)] =
                      [present |-> TRUE, blob |-> blob, exp |-> now + seconds]],
                  Tail(keys), seconds, blob)

BatchCachePrices(symbols, data, ttl) ==
    LET seconds == IF ttl.given /\ ttl.n # 0 THEN ttl.n
                   ELSE DefaultTtls("price_data")
        keys    == [i \in 1..Len(symbols) |->
                       GenerateKey("price", StrId(Upper(symbols[i])))]
        after   == IF redis THEN SetexAll(store, keys, seconds, Serialize(data))
                   ELSE store
        result  == PDict([i \in 1..Len(symbols) |->
                             PPair(PStr(symbols[i]),
                                   IF redis THEN PTrue ELSE PFalse)])
    IN  /\ Room({keys[i] : i \in 1..Len(keys)})
        /\ op' = Wrote("batch_cache_prices", keys[1], ttl, FALSE, result, after)
        /\ store' = after
        /\ OpFrame

(* the number a Redis string holds, as INCRBY reads it *)
IntBlob(n) == [fmt |-> "int", body |-> PInt(ToString(n))]
IntOf(blob) == CHOOSE n \in 0..(MaxCount + 1) : IntBlob(n) = blob

(***************************************************************************)
(* CacheManager.increment: INCRBY key amount.  Redis creates a key that is *)
(* not there with the value `amount` and no expiry, adds to a key that     *)
(* holds a number and keeps its expiry, and raises on any other value      *)
(* (the method then returns None).                                         *)
(***************************************************************************)
Increment(key, amount) ==
    LET held   == Retained(store[key], now)
        number == held /\ store[key].blob.fmt = "int"
        done   == redis /\ (~held \/ number)
        total  == IF number THEN IntOf(store[key].blob) + amount ELSE amount
        after  == IF ~done THEN store
                  ELSE [store EXCEPT ![key] =
                           [present |-> TRUE, blob |-> IntBlob(total),
                            exp |-> IF held THEN store[key].exp ELSE NoExpiry]]
    IN  /\ Room({key})
        /\ total <= MaxCount
        /\ op' = Wrote("increment", key, None, held /\ ~number,
                       IF done THEN PInt(ToString(total)) ELSE PNone, after)
        /\ store' = after
        /\ OpFrame

(* CacheManager.get_ttl: `ttl = await self.redis.ttl(key)`, `return ttl if *)
(* ttl > 0 else None` (Redis answers -1 without expiry, -2 without key)    *)
GetTtl(key) ==
    LET held == redis /\ Retained(store[key], now) /\ store[key].exp # NoExpiry
    IN  /\ op' = Wrote("get_ttl", key, None, FALSE,
                       IF held THEN PInt(ToString(store[key].exp - now)) ELSE PNone,
                       store)
        /\ UNCHANGED store
        /\ OpFrame

(* Time passes until the earliest expiry time among the entries; Redis     *)
(* drops the entries whose time is reached.                                *)
ExpireNext ==
    LET times == {store[k].exp : k \in {e \in EntriesAt(store, now) :
                                           store[e].exp # NoExpiry}}
        next  == CHOOSE t \in times : \A u \in times : t <= u
    IN  /\ times # {}
        /\ next <= PriceDataTtl * MaxTime
        /\ now' = next
        /\ store' = [k \in TtlKeys |->
                        IF Retained(store[k], next) THEN store[k] ELSE Absent]
        /\ op' = NoOp
        /\ UNCHANGED <<redis, pc, req, ret, got, lastSet>>
        /\ UNCHANGED <<keyVars, aggVars, riskVars, dbVars, serveVars, moreVars>>

TtlInit ==
    /\ redis = FALSE
    /\ store = [k \in TtlKeys |-> Absent]
    /\ now = 0
    /\ pc = [c \in Callers |-> "idle"]
    /\ req = [c \in Callers |-> NoReq]
    /\ ret = [c \in Callers |-> PNone]
    /\ got = NoGet
    /\ lastSet = [k \in Keys |-> NoSet]
    /\ op = NoOp

TtlNext ==
    \/ OpInitialize
    \/ \E ttl \in TtlArgs : TtlSet(CounterKey, OpValue, ttl)
    \/ \E ttl \in TtlArgs : TtlSetIfNotExists(CounterKey, OpValue, ttl)
    \/ \E symbol \in PriceSymbols, ttl \in TtlArgs : CachePriceData(symbol, OpValue, ttl)
    \/ \E ttl \in TtlArgs : CacheOpportunities(TtlFilters, OpValue, ttl)
    \/ \E ttl \in TtlArgs : CachePortfolioAnalysis("p1", OpValue, ttl)
    \/ \E ttl \in TtlArgs : CacheAiPrediction("risk", "h1", OpValue, ttl)
    \/ \E ttl \in TtlArgs : CacheMarketData(OpValue, ttl)
    \/ \E ttl \in TtlArgs : CacheGasPrices("Ethereum", OpValue, ttl)
    \/ \E symbols \in {<<"eth">>, <<"ETH", "btc">>}, ttl \in TtlArgs :
          BatchCachePrices(symbols, OpValue, ttl)
    \/ \E key \in {CounterKey, "market_data:latest"} : Increment(key, 1)
    \/ \E key \in {CounterKey, "market_data:latest"} : GetTtl(key)
    \/ ExpireNext

----------------------------------------------------------------------------
(***************************************************************************)
(* The rate limiter of setup_rate_limiting: a before_request hook over the *)
(* dict rate_limit_store, shared without a lock by the threads of the      *)
(* server (app.run(..., threaded=True)).  The requests followed are those  *)
(* of one client; the other clients are the entries they left in the       *)
(* store, all first seen at time 0.                                        *)
(*                                                                         *)
(* A thread runs the hook in three steps, between which the other thread   *)
(* may run: the cleanup, the lookup and the reset of an expired window (or *)
(* the creation of the entry of a new client); the test of the counter     *)
(* against the limit; the increment of the counter.                        *)
(***************************************************************************)

MaxHits == 4

Threads == {1, 2}

(* `if len(rate_limit_store) % 100 == 0`, and `current_time -              *)
(* data['reset_time'] > 3600` in clean_rate_limit_store                    *)
CleanEvery == 100
CleanAge   == 3600

(* RATE_LIMIT_REQUESTS and RATE_LIMIT_WINDOW as configured (the window     *)
(* defaults to 3600)                                                       *)
RateConfigs == { [requests |-> 2, window |-> w] : w \in {3600, 7200} }

(* the instants at which requests arrive *)
Instants == {0, 3600, 3601, 7200}

NoEntry == [present |-> FALSE, requests |-> 0, reset_time |-> 0]

IdleThread == [pc |-> "idle", at |-> 0]

(* len(rate_limit_store) *)
StoreLen == rateStore.others + (IF rateStore.client.present THEN 1 ELSE 0)

(* clean_rate_limit_store() at current_time *)
CleanRateLimitStore(current_time) ==
    [others |-> IF current_time - 0 > CleanAge THEN 0 ELSE rateStore.others,
     client |-> IF /\ rateStore.client.present
                   /\ current_time - rateStore.client.reset_time > CleanAge
                THEN NoEntry ELSE rateStore.client]

(* the requests handled so far: begun, admitted (with the time of each),   *)
(* rejected, and the reset_time values the entry of the client has had     *)
Admit(t)  == [rateLog EXCEPT !.admits = Append(@, t)]
Reject    == [rateLog EXCEPT !.rejected = @ + 1]

RateFrame ==
    UNCHANGED <<cacheVars, keyVars, aggVars, riskVars, dbVars, opVars, serveVars,
                storeVars, collectVars, breakerVars>>

RateInit ==
    /\ rateConfig \in RateConfigs
    /\ rateStore \in { [others |-> n, client |-> NoEntry] : n \in {0, 99} }
    /\ rateNow = 0
    /\ rateThread = [th \in Threads |-> IdleThread]
    /\ rateLog = [begun |-> 0, admits |-> <<>>, rejected |-> 0, starts |-> {}]

(* rate_limit(), up to the test of the counter: the periodic cleanup, then *)
(* either the reset of the client's window when it has expired, or, for a  *)
(* client that is not in the store, the new entry with requests = 1 (the   *)
(* request is admitted at once).                                           *)
RateBegin(th) ==
    LET current_time == rateNow
        cleaned == IF StoreLen % CleanEvery = 0
                   THEN CleanRateLimitStore(current_time) ELSE rateStore
        entry   == cleaned.client
        expired == current_time - entry.reset_time >= rateConfig.window
        reset   == IF expired
                   THEN [entry EXCEPT !.requests = 0, !.reset_time = current_time]
                   ELSE entry
    IN  /\ rateThread[th].pc = "idle"
        /\ rateLog.begun < MaxHits
        /\ IF entry.present
           THEN /\ rateStore' = [cleaned EXCEPT !.client = reset]
                /\ rateThread' = [rateThread EXCEPT
                                     ![th] = [pc |-> "check", at |-> current_time]]
                /\ rateLog' = [rateLog EXCEPT !.begun = @ + 1,
                                              !.starts = @ \cup {reset.reset_time}]
           ELSE /\ rateStore' = [cleaned EXCEPT !.client =
                                    [present |-> TRUE, requests |-> 1,
                                     reset_time |-> current_time]]
                /\ UNCHANGED rateThread
                /\ rateLog' = [Admit(current_time) EXCEPT
                                  !.begun = @ + 1,
                                  !.starts = @ \cup {current_time}]
        /\ UNCHANGED <<rateConfig, rateNow>>
        /\ RateFrame

(* `if client_data['requests'] >= rate_limit_requests: return ..., 429` *)
RateCheck(th) ==
    /\ rateThread[th].pc = "check"
    /\ IF rateStore.client.requests >= rateConfig.requests
       THEN /\ rateThread' = [rateThread EXCEPT ![th] = IdleThread]
            /\ rateLog' = Reject
       ELSE /\ rateThread' = [rateThread EXCEPT ![th].pc = "increment"]
            /\ UNCHANGED rateLog
    /\ UNCHANGED <<rateConfig, rateStore, rateNow>>
    /\ RateFrame

(* `client_data['requests'] += 1`; the request goes on to its handler *)
RateIncrement(th) ==
    /\ rateThread[th].pc = "increment"
    /\ rateStore' = [rateStore EXCEPT !.client.requests = @ + 1]
    /\ rateThread' = [rateThread EXCEPT ![th] = IdleThread]
    /\ rateLog' = Admit(rateThread[th].at)
    /\ UNCHANGED <<rateConfig, rateNow>>
    /\ RateFrame

(* time passes between two requests *)
RateElapse(t) ==
    /\ \A th \in Threads : rateThread[th].pc = "idle"
    /\ t > rateNow
    /\ rateNow' = t
    /\ UNCHANGED <<rateConfig, rateStore, rateThread, rateLog>>
    /\ RateFrame

RateNext ==
    \/ \E th \in Threads : RateBegin(th)
    \/ \E th \in Threads : RateCheck(th)
    \/ \E th \in Threads : RateIncrement(th)
    \/ \E t \in Instants : RateElapse(t)

----------------------------------------------------------------------------
(***************************************************************************)
(* CircuitBreaker (utils/helpers.py): call(func) around a protected        *)
(* function that returns or raises.  Calls come one at a time.             *)
(***************************************************************************)

MaxFailures == 4
MaxTicks    == 4

(* CircuitBreaker(failure_threshold, recovery_timeout) as constructed *)
BreakerConfigs ==
    { [failure_threshold |-> th, recovery_timeout |-> rt] :
         th \in {2, 3}, rt \in {1, 2} }

(* self.last_failure_time = None *)
NoTime == -1

NoBreakerCall ==
    [made |-> FALSE, invoked |-> FALSE, raised |-> FALSE, trial |-> FALSE,
     at |-> 0, before |-> [state |-> "CLOSED", failure_count |-> 0,
                           last_failure_time |-> NoTime]]

(* CircuitBreaker.__init__ *)
BreakerInit ==
    /\ breakerConfig \in BreakerConfigs
    /\ breaker = [state |-> "CLOSED", failure_count |-> 0,
                  last_failure_time |-> NoTime]
    /\ breakerNow = 0
    /\ breakerCall = NoBreakerCall
    /\ breakerStreak = 0

BreakerFrame ==
    UNCHANGED <<cacheVars, keyVars, aggVars, riskVars, dbVars, opVars, serveVars,
                storeVars, collectVars, rateVars>>

(* `if self.state == 'OPEN'` and not `time.time() - self.last_failure_time *)
(* > self.recovery_timeout`: the call raises "Circuit breaker is OPEN"     *)
StillOpen ==
    /\ breaker.state = "OPEN"
    /\ ~(breakerNow - breaker.last_failure_time > breakerConfig.recovery_timeout)

(***************************************************************************)
(* CircuitBreaker.call(func); `fails`: func raises.  breakerStreak counts  *)
(* the failures of func since its last success.                            *)
(***************************************************************************)
BreakerCallFn(fails) ==
    LET entered == IF breaker.state = "OPEN" THEN "HALF_OPEN" ELSE breaker.state
        count   == breaker.failure_count + 1
        record(invoked, raised) ==
            [made |-> TRUE, invoked |-> invoked, raised |-> raised,
             trial |-> invoked /\ entered = "HALF_OPEN", at |-> breakerNow,
             before |-> breaker]
    IN  /\ breaker.failure_count < MaxFailures
        /\ IF StillOpen
           THEN /\ breakerCall' = record(FALSE, TRUE)
                /\ UNCHANGED <<breaker, breakerStreak>>
           ELSE IF ~fails
           THEN /\ breaker' = IF entered = "HALF_OPEN"
                              THEN [breaker EXCEPT !.state = "CLOSED",
                                                   !.failure_count = 0]
                              ELSE breaker
                /\ breakerCall' = record(TRUE, FALSE)
                /\ breakerStreak' = 0
           ELSE /\ breaker' = [state |-> IF count >= breakerConfig.failure_threshold
                                         THEN "OPEN" ELSE entered,
                               failure_count |-> count,
                               last_failure_time |-> breakerNow]
                /\ breakerCall' = record(TRUE, TRUE)
                /\ breakerStreak' = breakerStreak + 1
        /\ UNCHANGED <<breakerConfig, breakerNow>>
        /\ BreakerFrame

(* one second passes *)
BreakerTick ==
    /\ breakerNow < MaxTicks
    /\ breakerNow' = breakerNow + 1
    /\ UNCHANGED <<breakerConfig, breaker, breakerCall, breakerStreak>>
    /\ BreakerFrame

BreakerNext ==
    \/ \E fails \in BOOLEAN : BreakerCallFn(fails)
    \/ BreakerTick

----------------------------------------------------------------------------
(***************************************************************************)
(* Specifications.  Each runs one component; the variables of the other    *)
(* components rest at fixed values.                                        *)
(***************************************************************************)
KeyIdle ==
    /\ prefix = "" /\ key1 = "" /\ key2 = ""
    /\ ident1 = [kind |-> "str", items |-> <<>>, s |-> ""]
    /\ ident2 = [kind |-> "str", items |-> <<>>, s |-> ""]

AggIdle ==
    /\ params = [min_apy |-> 0, min_tvl |-> 0, chains |-> {}]
    /\ payload = [src \in SourceSet |-> [status |-> "raise", items |-> <<>>]]
    /\ task = [src \in SourceSet |-> "done"]
    /\ taskRes = [src \in SourceSet |-> NoResult]
    /\ arrival = <<>>
    /\ apc = "idle"
    /\ out = <<>>
    /\ response = NoResponse

RiskIdle ==
    /\ riskPool = PoolDict(NoInt, NoInt, NoStr, NoStr)
    /\ riskVault = VaultDict(NoStr, NoStr)
    /\ riskOut = <<>>
    /\ riskPc = "idle"

DbIdle ==
    /\ atomicBatch = TRUE
    /\ tables = [tbl \in {"yield_data", "price_data"} |-> {}]
    /\ nextId = [tbl \in {"yield_data", "price_data"} |-> 1]
    /\ dbNow = 0
    /\ conn = [c \in Connections |-> NoCall]
    /\ pend = [c \in Connections |-> {}]
    /\ calls = 0
    /\ lastUpsert = {}

StoreIdle == dbOp = NoDbOp

CollectIdle == fetch = NoFetch

RateIdle ==
    /\ rateConfig = [requests |-> 2, window |-> 3600]
    /\ rateStore = [others |-> 0, client |-> NoEntry]
    /\ rateNow = 0
    /\ rateThread = [th \in Threads |-> IdleThread]
    /\ rateLog = [begun |-> 0, admits |-> <<>>, rejected |-> 0, starts |-> {}]

BreakerIdle ==
    /\ breakerConfig = [failure_threshold |-> 2, recovery_timeout |-> 1]
    /\ breaker = [state |-> "CLOSED", failure_count |-> 0,
                  last_failure_time |-> NoTime]
    /\ breakerNow = 0
    /\ breakerCall = NoBreakerCall
    /\ breakerStreak = 0

MoreIdle == StoreIdle /\ CollectIdle /\ RateIdle /\ BreakerIdle

OpIdle == op = NoOp

ServeIdle == served = <<>>

InitCache == CacheInit /\ KeyIdle /\ AggIdle /\ RiskIdle /\ DbIdle /\ OpIdle /\ ServeIdle
             /\ MoreIdle
SpecCache == InitCache /\ [][CacheNext]_vars

InitKey   == KeyInit /\ CacheInit /\ AggIdle /\ RiskIdle /\ DbIdle /\ OpIdle /\ ServeIdle
             /\ MoreIdle
SpecKey   == InitKey /\ [][KeyNext]_vars

InitAgg   == AggInit /\ CacheInit /\ KeyIdle /\ RiskIdle /\ DbIdle /\ OpIdle /\ ServeIdle
             /\ MoreIdle
SpecAgg   == InitAgg /\ [][AggNext]_vars

InitDb    == DbInit /\ CacheInit /\ KeyIdle /\ AggIdle /\ RiskIdle /\ OpIdle /\ ServeIdle
             /\ MoreIdle
SpecDb    == InitDb /\ [][DbNext]_vars

InitLimit == LimitInit /\ CacheInit /\ KeyIdle /\ RiskIdle /\ DbIdle /\ OpIdle /\ ServeIdle
             /\ MoreIdle
SpecLimit == InitLimit /\ [][AggNext]_vars

InitRisk  == RiskInit /\ CacheInit /\ KeyIdle /\ AggIdle /\ DbIdle /\ OpIdle /\ ServeIdle
             /\ MoreIdle
SpecRisk  == InitRisk /\ [][RiskNext]_vars

InitOps   == OpsInit /\ KeyIdle /\ AggIdle /\ RiskIdle /\ DbIdle /\ ServeIdle
             /\ MoreIdle
SpecOps   == InitOps /\ [][OpsNext]_vars

InitServe == ServeInit /\ KeyIdle /\ RiskIdle /\ DbIdle /\ OpIdle
             /\ MoreIdle
SpecServe == InitServe /\ [][ServeNext]_vars

InitStore ==
    /\ StoreInit
    /\ CacheInit /\ KeyIdle /\ AggIdle /\ RiskIdle /\ OpIdle /\ ServeIdle
    /\ CollectIdle /\ RateIdle /\ BreakerIdle
SpecStore == InitStore /\ [][StoreNext]_vars

InitCollect ==
    /\ CollectInit
    /\ CacheInit /\ KeyIdle /\ AggIdle /\ RiskIdle /\ DbIdle /\ OpIdle /\ ServeIdle
    /\ StoreIdle /\ RateIdle /\ BreakerIdle
SpecCollect == InitCollect /\ [][CollectNext]_vars

InitTtl   == TtlInit /\ KeyIdle /\ AggIdle /\ RiskIdle /\ DbIdle /\ ServeIdle
             /\ MoreIdle
SpecTtl   == InitTtl /\ [][TtlNext]_vars

InitRate ==
    /\ RateInit
    /\ CacheInit /\ KeyIdle /\ AggIdle /\ RiskIdle /\ DbIdle /\ OpIdle /\ ServeIdle
    /\ StoreIdle /\ CollectIdle /\ BreakerIdle
SpecRate  == InitRate /\ [][RateNext]_vars

InitBreaker ==
    /\ BreakerInit
    /\ CacheInit /\ KeyIdle /\ AggIdle /\ RiskIdle /\ DbIdle /\ OpIdle /\ ServeIdle
    /\ StoreIdle /\ CollectIdle /\ RateIdle
SpecBreaker == InitBreaker /\ [][BreakerNext]_vars

----------------------------------------------------------------------------
(* Claims about the cache, checked under SpecCache. *)

(***************************************************************************)
(* C1: set_if_not_exists is atomic.  When two callers call it on the same  *)
(* key, each found the key absent, and no second has passed since (so      *)
(* nothing has expired and the two calls overlapped), exactly one of them  *)
(* reports that it wrote, and a get of the key returns that call's value.  *)
(***************************************************************************)
C1_SetIfAbsentAtomic ==
    \A c \in Callers, d \in Callers :
        ( /\ c # d
          /\ pc[c] = "done" /\ pc[d] = "done"
          /\ req[c].key = req[d].key
          /\ req[c].absent0 /\ req[d].absent0
          /\ req[c].ttl > 0 /\ req[d].ttl > 0
          /\ ~req[c].ticked /\ ~req[d].ticked )
        => /\ (ret[c] = PTrue) # (ret[d] = PTrue)
           /\ (ret[c] = PTrue) => CacheGet(req[c].key, PNone) = req[c].val

(***************************************************************************)
(* C8: round trip.  While the TTL of the most recent successful set on a   *)
(* key has not elapsed, get returns exactly the value that was stored.     *)
(***************************************************************************)
C8_GetReturnsStoredValue ==
    \A k \in Keys :
        (lastSet[k].done /\ now < lastSet[k].exp)
        => CacheGet(k, PNone) = lastSet[k].val

(***************************************************************************)
(* C9: the lifetime of a key is that of the most recent set alone.  From   *)
(* ttl seconds after that set on, the key is gone and get is a miss;       *)
(* before, the key holds the serialization of that set's value with that   *)
(* set's expiry time, whatever the entry it replaced.                      *)
(***************************************************************************)
C9_LifetimeOfLatestSet ==
    \A k \in Keys :
        lastSet[k].done =>
            /\ now >= lastSet[k].exp =>
                   (~Live(k) /\ CacheGet(k, VStr) = VStr)
            /\ now < lastSet[k].exp =>
                   /\ Live(k)
                   /\ store[k].exp = lastSet[k].exp
                   /\ store[k].blob = Serialize(lastSet[k].val)

(* C9 witness: a set replaced a live entry that was to expire earlier; that *)
(* earlier expiry time has come and a get still returns the new value.      *)
C9_Witness ==
    \E k \in Keys :
        /\ lastSet[k].done
        /\ lastSet[k].over > 0 /\ lastSet[k].over < lastSet[k].exp
        /\ now >= lastSet[k].over /\ now < lastSet[k].exp
        /\ got = [key |-> k, val |-> VCleanDict]
        /\ lastSet[k].val = VCleanDict

----------------------------------------------------------------------------
(* Claims about the derived cache key, checked under SpecKey. *)

(* The entries of a dict, whatever their order. *)
Entries(identifier) == { identifier.items[i] : i \in 1..Len(identifier.items) }

(***************************************************************************)
(* C10: the derived key does not depend on the order of the parameters:    *)
(* two dicts with the same entries get the same key under a category, and  *)
(* two dicts with different entries get different keys.                    *)
(***************************************************************************)
C10_KeyIgnoresParameterOrder ==
    (key1 # "" /\ key2 # "" /\ ident1.kind = "dict" /\ ident2.kind = "dict")
    => (key1 = key2 <=> Entries(ident1) = Entries(ident2))

(* C10 witness: the same three entries in two different orders, one key. *)
C10_Witness ==
    /\ key1 # "" /\ key1 = key2
    /\ ident1.kind = "dict" /\ ident2.kind = "dict"
    /\ Len(ident1.items) = 3
    /\ ident1.items # ident2.items
    /\ Entries(ident1) = Entries(ident2)

----------------------------------------------------------------------------
(* Claims about the aggregation, checked under SpecAgg. *)

Returned(src) == { taskRes[src].list[i] : i \in 1..Len(taskRes[src].list) }

OppA == [protocol |-> "aave", pool_name |-> "USDC", apy |-> 500, tvl |-> 2000000,
         risk_score |-> 3, category |-> "lending", chain |-> "ethereum",
         contract_address |-> "0xA", minimum_deposit |-> 0, lock_period |-> 0]
OppB == [protocol |-> "Yearn", pool_name |-> "yvDAI", apy |-> 1000, tvl |-> 50000000,
         risk_score |-> 3, category |-> "yield_farming", chain |-> "ethereum",
         contract_address |-> "0xB", minimum_deposit |-> 0, lock_period |-> 0]

(* The first source answers [A(apy=5%)], the second [B(apy=10%)], the third fails. *)
ThirdSourceFails ==
    /\ payload["defillama"] = [status |-> "ok", items |-> <<PoolA>>]
    /\ payload["yearn"] = [status |-> "ok", items |-> <<VaultB>>]
    /\ Failed("beefy")
    /\ params = [min_apy |-> 100, min_tvl |-> 100000, chains |-> {}]

(***************************************************************************)
(* C2: no two records of an aggregation output have the same dedup key     *)
(* (contract_address, pool_name).                                          *)
(***************************************************************************)
C2_NoTwoRecordsShareDedupKey ==
    apc \in {"done", "responded"} =>
        \A i \in 1..Len(out), j \in 1..Len(out) :
            i # j => DedupKey(out[i]) # DedupKey(out[j])

(* C2 witness: the sources returned more records than keys, and two records remain. *)
C2_Witness ==
    /\ apc = "done"
    /\ Len(out) >= 2
    /\ Len(ExtendAll(Gather(taskRes, arrival))) > Len(out)

(***************************************************************************)
(* C3: fail-partial.  When some source fails, the scan still returns; the  *)
(* failed source contributes nothing, every record a succeeding source     *)
(* returned is represented in the output under its dedup key, and every    *)
(* output record is one a succeeding source returned.  With the first      *)
(* source returning A(5%), the second B(10%) and the third failing, the    *)
(* output is [B, A].                                                       *)
(***************************************************************************)
C3_FailPartial ==
    (apc = "done" /\ \E src \in SourceSet : Failed(src)) =>
        /\ \A src \in SourceSet : Failed(src) => taskRes[src].list = <<>>
        /\ \A src \in SourceSet : \A r \in Returned(src) :
               \E i \in 1..Len(out) : DedupKey(out[i]) = DedupKey(r)
        /\ \A i \in 1..Len(out) :
               \E src \in SourceSet : ~Failed(src) /\ out[i] \in Returned(src)
        /\ ThirdSourceFails => out = <<OppB, OppA>>

(* C3 witness: the scenario of the claim has run to its end. *)
C3_Witness ==
    /\ apc = "done"
    /\ ThirdSourceFails
    /\ out = <<OppB, OppA>>

(***************************************************************************)
(* C4: the result of an aggregation carries a status map with "ok" for     *)
(* each source that succeeded and "error" for each that failed, so that a  *)
(* run in which every source failed differs, for the caller, from a run    *)
(* whose sources answered and matched nothing.                             *)
(***************************************************************************)
C4_ResultCarriesSourceStatus ==
    apc = "responded" =>
        /\ "source_status" \in DOMAIN response
        /\ \A src \in SourceSet :
               response.source_status[src] = IF Failed(src) THEN "error" ELSE "ok"
        /\ (\A src \in SourceSet : Failed(src)) =>
               response # [success |-> TRUE, opportunities |-> <<>>, count |-> 0]

(***************************************************************************)
(* C5: the output does not depend on the order in which the sources'       *)
(* coroutines finish: for the results the sources returned, every order of *)
(* completion gives the output of this run.                                *)
(***************************************************************************)
CompletionOrders ==
    { o \in [1..Len(Sources) -> SourceSet] :
        \A i \in 1..Len(Sources), j \in 1..Len(Sources) : i # j => o[i] # o[j] }

C5_CompletionOrderIrrelevant ==
    apc = "done" => \A o \in CompletionOrders : out = Aggregate(Gather(taskRes, o))

(* C5 witness: the last source finished first, it and the first source     *)
(* returned records of one dedup key, and the first source's is in the     *)
(* output.                                                                 *)
C5_Witness ==
    /\ apc = "done"
    /\ arrival = <<"beefy", "yearn", "defillama">>
    /\ \E r \in Returned("beefy") : \E i \in 1..Len(out) :
          /\ DedupKey(r) = DedupKey(out[i])
          /\ out[i] \in Returned("defillama")
          /\ out[i] # r

----------------------------------------------------------------------------
(* Claims about the database, checked under SpecDb. *)

TableNames == {"yield_data", "price_data"}

(* the rows of a table that carry the natural key of a record *)
RowsWithKey(tbl, rec) ==
    {row \in tables[tbl] : KeyOf(tbl, row) = KeyOf(tbl, rec)}

(* the columns of a table that are neither key nor generated *)
PayloadColumns(tbl) ==
    IF tbl = "yield_data"
    THEN {"apy", "tvl", "risk_score", "category"}
    ELSE {"price", "volume"}

PayloadOf(tbl, r) == [col \in PayloadColumns(tbl) |-> r[col]]

(* C6: after any sequence of store_yield_data / store_price_data calls a   *)
(* table holds at most one row per natural key, and the one row of a key   *)
(* carries the score (for prices: the price) of the latest upsert of that  *)
(* key.                                                                    *)
C6_OneRowPerNaturalKey ==
    /\ \A tbl \in TableNames : \A r1, r2 \in tables[tbl] :
          KeyOf(tbl, r1) = KeyOf(tbl, r2) => r1 = r2
    /\ \A u \in lastUpsert :
          /\ RowsWithKey(u.tbl, u.rec) # {}
          /\ \A row \in RowsWithKey(u.tbl, u.rec) :
                IF u.tbl = "yield_data"
                THEN row.risk_score = u.rec.risk_score
                ELSE row.price = u.rec.price

(* two calls that overlapped in time, were the only calls so far, wrote    *)
(* the same table and have both ended *)
ConcurrentPairEnded ==
    /\ calls = 2
    /\ \A c \in Connections :
          /\ conn[c].pc \in {"done", "raised"}
          /\ conn[c].peers = Connections \ {c}
    /\ conn[1].fn = conn[2].fn

RecordsOf(c) == {conn[c].records[i] : i \in 1..Len(conn[c].records)}

(* C7: two concurrent upsert calls writing overlapping natural keys both   *)
(* complete, and every key both wrote then has exactly one row, whose      *)
(* payload columns are those one of the two calls wrote for that key.      *)
C7_ConcurrentUpsertsSafe ==
    ConcurrentPairEnded =>
        LET tbl    == TableOf(conn[1].fn)
            shared == {r \in RecordsOf(1) :
                         \E r2 \in RecordsOf(2) :
                            KeyOf(tbl, r) = KeyOf(tbl, r2)}
            wrote(r) == {PayloadOf(tbl, w) : w \in
                           {w \in RecordsOf(1) \cup RecordsOf(2) :
                               KeyOf(tbl, w) = KeyOf(tbl, r)}}
        IN  shared # {} =>
              /\ \A c \in Connections :
                    conn[c].pc = "done" /\ conn[c].ret = Len(conn[c].records)
              /\ \A r \in shared :
                    /\ Cardinality(RowsWithKey(tbl, r)) = 1
                    /\ \A row \in RowsWithKey(tbl, r) :
                          PayloadOf(tbl, row) \in wrote(r)

----------------------------------------------------------------------------
(* Claims about the risk scores, checked under SpecRisk. *)

(***************************************************************************)
(* C11: every record of an aggregation output has an integer risk_score    *)
(* from 1 to 10, whichever of the fields tvl, age, project and symbol the  *)
(* payload carries, for the records of every source.                       *)
(***************************************************************************)
C11_RiskScoreInRange ==
    riskPc = "scanned" =>
        \A i \in 1..Len(riskOut) : riskOut[i].risk_score \in 1..10

(* C11 witness: a pool without tvl, age, project and symbol was scanned,   *)
(* every source has a record in the output, and the pool's score is 9.     *)
C11_Witness ==
    /\ riskPc = "scanned"
    /\ riskPool = PoolDict(NoInt, NoInt, NoStr, NoStr)
    /\ {riskOut[i].protocol : i \in 1..Len(riskOut)} = {"Unknown", "Yearn", "Beefy"}
    /\ \E i \in 1..Len(riskOut) :
          riskOut[i].protocol = "Unknown" /\ riskOut[i].risk_score = 9

----------------------------------------------------------------------------
(* Further claims about the aggregation, checked under SpecAgg. *)

(***************************************************************************)
(* C12: every record of an aggregation output satisfies the caller's       *)
(* filters: apy >= min_apy, tvl >= min_tvl and, when chains are given,     *)
(* chain among them.  With min_apy = 6%, the first source returning        *)
(* A(5%), the second B(10%) and the third nothing, the output is [B].      *)
(***************************************************************************)
C12_OutputSatisfiesFilters ==
    apc \in {"done", "responded"} =>
        /\ \A i \in 1..Len(out) :
              /\ out[i].apy >= params.min_apy
              /\ out[i].tvl >= params.min_tvl
              /\ params.chains # {} => out[i].chain \in params.chains
        /\ ( /\ payload["defillama"] = [status |-> "ok", items |-> <<PoolA>>]
             /\ payload["yearn"] = [status |-> "ok", items |-> <<VaultB>>]
             /\ Failed("beefy")
             /\ params = [min_apy |-> 600, min_tvl |-> 100000, chains |-> {}] )
           => out = <<OppB>>

(* the rank of a protocol name in Python's order of str (code points) *)
ProtocolRank(name) ==
    CASE name = "Beefy"   -> 1
      [] name = "Unknown" -> 2
      [] name = "Yearn"   -> 3
      [] name = "aave"    -> 4
      [] name = "convex"  -> 5

(* record a may stand directly before record b in the specified order *)
OrderedPair(a, b) ==
    \/ a.apy > b.apy
    \/ a.apy = b.apy /\ a.tvl > b.tvl
    \/ a.apy = b.apy /\ a.tvl = b.tvl
          /\ ProtocolRank(a.protocol) <= ProtocolRank(b.protocol)

(***************************************************************************)
(* C13: the aggregation output is sorted by apy descending, records of     *)
(* equal apy by tvl descending, records of equal apy and tvl by protocol   *)
(* name ascending.                                                         *)
(***************************************************************************)
C13_OutputTotallyOrdered ==
    apc \in {"done", "responded"} =>
        \A i \in 1..Len(out), j \in 1..Len(out) :
            i < j => OrderedPair(out[i], out[j])

(* the position of a source in the provider order *)
SourceIndex(src) == CHOOSE i \in 1..Len(Sources) : Sources[i] = src

(***************************************************************************)
(* C14: when records of two sources share a dedup key, the output keeps    *)
(* the record of the source that is later in the provider order            *)
(* (defillama, yearn, beefy) and drops the earlier source's.               *)
(***************************************************************************)
C14_LaterSourceWins ==
    apc \in {"done", "responded"} =>
        \A s1 \in SourceSet, s2 \in SourceSet :
            SourceIndex(s1) < SourceIndex(s2) =>
                \A r1 \in Returned(s1), r2 \in Returned(s2) :
                    (DedupKey(r1) = DedupKey(r2) /\ r1 # r2) =>
                        \A i \in 1..Len(out) : out[i] # r1

----------------------------------------------------------------------------
(* Claim about the size of the output, checked under SpecLimit. *)

(***************************************************************************)
(* C15: the output of scan_yield_opportunities has at most N records for   *)
(* a fixed N, however many admissible records the sources return.  The     *)
(* slices of the code let at most MaxOutput records pass, so N is taken    *)
(* as MaxOutput; for a larger N a Yearn payload of N + 1 vaults is the     *)
(* same case.                                                              *)
(***************************************************************************)
C15_OutputSizeBounded ==
    apc \in {"done", "responded"} => Len(out) <= MaxOutput

----------------------------------------------------------------------------
(* Further claim about the risk scores, checked under SpecRisk. *)

(* the provider is on the blue-chip allow-list *)
BlueChip(pool) ==
    Lower(DictGet(pool, "project", "")) \in {"aave", "compound", "uniswap", "curve"}

(* The record is a multi-asset / liquidity-pool position: its symbol names *)
(* an LP token or several assets ("WETH-USDC"), the test by which          *)
(* _categorize_pool files a pool under liquidity_provision and by which    *)
(* token_symbols gets more than one entry.                                 *)
LiquidityPosition(pool) ==
    LET symbol == Lower(DictGet(pool, "symbol", ""))
    IN  ContainsLp(symbol) \/ ContainsDash(symbol)

(* the reference score of the specification *)
ReferenceRiskScore(tvl, age_days, blue_chip, lp_position) ==
    LET s1 == 5
        s2 == s1 + (IF tvl > 100000000 THEN -1 ELSE IF tvl < 1000000 THEN 2 ELSE 0)
        s3 == s2 + (IF age_days > 365 THEN -1 ELSE IF age_days < 30 THEN 2 ELSE 0)
        s4 == s3 - (IF blue_chip THEN 1 ELSE 0)
        s5 == s4 + (IF lp_position THEN 1 ELSE 0)
    IN  IF s5 < 1 THEN 1 ELSE IF s5 > 10 THEN 10 ELSE s5

(***************************************************************************)
(* C16: the risk score of a DeFiLlama record equals the reference: 5, -1   *)
(* for tvl > 1e8, +2 for tvl < 1e6, -1 for age_days > 365, +2 for          *)
(* age_days < 30, -1 for a blue-chip provider, +1 for a multi-asset or     *)
(* liquidity-pool position, clamped to [1, 10].                            *)
(***************************************************************************)
C16_RiskScoreEqualsReference ==
    riskPc = "scanned" =>
        \A i \in 1..Len(riskOut) :
            riskOut[i].contract_address = riskPool.pool =>
                riskOut[i].risk_score =
                    ReferenceRiskScore(DictGet(riskPool, "tvlUsd", 0),
                                       DictGet(riskPool, "ageDays", 0),
                                       BlueChip(riskPool),
                                       LiquidityPosition(riskPool))

----------------------------------------------------------------------------
(* Claims about the CacheManager calls, checked under SpecOps. *)

(* the entry of key k in a keyspace is alive at time t *)
LiveIn(space, k, t) == space[k].present /\ t < space[k].exp

(***************************************************************************)
(* C17: invalidate_pattern called with a prefix, the backend answering,    *)
(* removes every entry whose key starts with the prefix and leaves every   *)
(* other entry as it was, value and expiry time; a get on a key with the   *)
(* prefix right after the call is a miss.                                  *)
(***************************************************************************)
C17_InvalidateRemovesPrefix ==
    (op.fn = "invalidate_pattern" /\ op.connected /\ ~op.raised) =>
        \A k \in OpKeys :
            /\ StartsWith(k, op.arg) =>
                  /\ ~LiveIn(op.after, k, op.at)
                  /\ (store = op.after /\ now = op.at) => CacheGet(k, VStr) = VStr
            /\ ~StartsWith(k, op.arg) => op.after[k] = op.before[k]

(***************************************************************************)
(* C18: no call lets an exception out; when self.redis is not set or a     *)
(* Redis command of the call raised, get returns the default and set,      *)
(* set_if_not_exists, delete and exists return False; a get on a key that  *)
(* is absent or expired returns the default.                               *)
(***************************************************************************)
C18_CacheFailureNotFatal ==
    op.fn # "none" =>
        /\ ~op.escaped
        /\ (~op.connected \/ op.raised) =>
              /\ op.fn = "get" => op.ret = PNone
              /\ op.fn \in {"set", "set_if_not_exists", "delete", "exists"} =>
                    op.ret = PFalse
        /\ (op.fn = "get" /\ ~LiveIn(op.before, op.arg, op.at)) => op.ret = PNone

----------------------------------------------------------------------------
(* Claims about the requests to the endpoint, checked under SpecServe. *)

(***************************************************************************)
(* C19: cache-aside.  A request that finds an unexpired entry for its      *)
(* filters is answered without the scanner running; a request that finds   *)
(* none leaves an entry for its filters behind; and of two requests with   *)
(* the same filters less than the TTL apart the second does not scan.      *)
(***************************************************************************)
C19_CacheAside ==
    \A j \in 1..Len(served) :
        /\ served[j].hit => ~served[j].scanned
        /\ ~served[j].hit => served[j].stored
        /\ \A i \in 1..(j - 1) :
              ( /\ served[i].params = served[j].params
                /\ served[j].at < served[i].at + YieldDataTtl )
              => ~served[j].scanned

----------------------------------------------------------------------------
(* A claim about the upsert, checked under SpecDb. *)

(* the record has a value in every column of the natural key *)
KeyComplete(tbl, rec) == \A col \in KeyColumns(tbl) : rec[col] # Null

(* every row with the natural key of a committed upsert carries, in every *)
(* payload column, the value of the latest such upsert                    *)
PayloadOverwritten ==
    \A u \in lastUpsert :
        KeyComplete(u.tbl, u.rec) =>
            \A row \in RowsWithKey(u.tbl, u.rec) :
                PayloadOf(u.tbl, row) = PayloadOf(u.tbl, u.rec)

(* a row that a step keeps has its natural key and its created_at as before *)
KeyAndCreationKept ==
    \A tbl \in TableNames : \A old \in tables[tbl] : \A new \in tables'[tbl] :
        new.id = old.id =>
            /\ KeyOf(tbl, new) = KeyOf(tbl, old)
            /\ new.created_at = old.created_at

(***************************************************************************)
(* C20: when an upsert meets a row with its natural key, every payload     *)
(* column of the row takes the value of the new record, and the natural    *)
(* key and created_at of the row stay as they were.                        *)
(***************************************************************************)
C20_UpsertOverwritesPayload ==
    [][PayloadOverwritten' /\ KeyAndCreationKept]_vars

----------------------------------------------------------------------------
(* Claims about the one-row stores, the cleanup and the price query,       *)
(* checked under SpecStore.                                                *)

(***************************************************************************)
(* C21: portfolio_snapshots holds at most one row per (portfolio_id,       *)
(* timestamp): a snapshot stored under a key that exists updates the row   *)
(* of that key and adds none.                                              *)
(***************************************************************************)
C21_OneRowPerPortfolioKey ==
    \A r1 \in tables["portfolio_snapshots"], r2 \in tables["portfolio_snapshots"] :
        (r1.portfolio_id = r2.portfolio_id /\ r1.timestamp = r2.timestamp)
        => r1 = r2

WriteOps ==
    {"store_price_data", "store_yield_data", "store_portfolio_snapshot",
     "store_market_data", "store_ai_prediction", "cleanup_old_data"}

CleanupTables == {CleanupOrder[i] : i \in 1..Len(CleanupOrder)}

(* the outcome has the form of an outcome of a successful call of fn *)
LooksSuccessful(fn, outcome) ==
    CASE fn \in {"store_price_data", "store_yield_data"} -> outcome.kind = "int"
      [] fn = "cleanup_old_data" ->
            outcome.kind = "dict" /\ DOMAIN outcome.counts = CleanupTables
      [] OTHER -> outcome.kind = "bool" /\ outcome.b

(* what a successful call reports was done: the rows it counts as deleted  *)
(* are gone, the rows it counts as stored are there                        *)
ReportIsTrue ==
    CASE dbOp.fn = "cleanup_old_data" ->
            \A tbl \in CleanupTables :
                dbOp.outcome.counts[tbl] =
                    Cardinality(dbOp.before[tbl] \ tables[tbl])
      [] dbOp.fn \in {"store_price_data", "store_yield_data"} ->
            LET tbl  == TableOf(dbOp.fn)
                data == dbOp.arg[1]
            IN  /\ dbOp.outcome.n = Len(data)
                /\ \A i \in 1..Len(data) :
                      \E row \in tables[tbl] :
                          \A col \in KeyColumns(tbl) \ {"pool_name"} :
                              row[col] = data[i][col]
      [] dbOp.fn = "store_portfolio_snapshot" ->
            \E row \in tables["portfolio_snapshots"] \ dbOp.before["portfolio_snapshots"] :
                row.portfolio_id = dbOp.arg[1]
      [] dbOp.fn = "store_market_data" ->
            \E row \in tables["market_data"] :
                /\ row.timestamp = dbOp.arg[1].timestamp
                /\ row.total_market_cap = dbOp.arg[1].total_market_cap
      [] dbOp.fn = "store_ai_prediction" ->
            \E row \in tables["ai_predictions"] \ dbOp.before["ai_predictions"] :
                row.model_type = dbOp.arg[1]

(***************************************************************************)
(* C22: a write-path call that failed gives its caller an outcome that no  *)
(* successful call gives (an exception, False, or a dict without counts),  *)
(* and a call that succeeded reports only rows it stored or deleted.       *)
(***************************************************************************)
C22_FailureSurfaced ==
    dbOp.fn \in WriteOps =>
        /\ dbOp.failed => ~LooksSuccessful(dbOp.fn, dbOp.outcome)
        /\ ~dbOp.failed => (LooksSuccessful(dbOp.fn, dbOp.outcome) /\ ReportIsTrue)

(* C22 witness: the third DELETE of a cleanup raised after the first two   *)
(* had removed rows; the caller got the empty dict.                        *)
C22_Witness ==
    /\ dbOp.fn = "cleanup_old_data"
    /\ dbOp.failed
    /\ dbOp.before["price_data"] # {}
    /\ tables["price_data"] = {}
    /\ dbOp.outcome = ReturnedDict(<<>>)

(* the age in days of a row when the call of dbOp was made *)
AgeOf(row) == dbOp.at - row.created_at

(***************************************************************************)
(* C23: a cleanup removes exactly the rows older than the horizon of their *)
(* table, and whatever days_to_keep the caller passed, the horizon of     *)
(* portfolio_snapshots is the longer one: no snapshot is deleted while a   *)
(* row of a raw table that has the same age is kept.                       *)
(***************************************************************************)
C23_SnapshotsKeptLonger ==
    (dbOp.fn = "cleanup_old_data" /\ ~dbOp.failed) =>
        LET days_to_keep == dbOp.arg[1]
            horizon(tbl) == IF tbl = "portfolio_snapshots"
                            THEN PortfolioDaysToKeep ELSE days_to_keep
            raw == CleanupTables \ {"portfolio_snapshots"}
        IN  /\ \A tbl \in CleanupTables :
                  tables[tbl] = {row \in dbOp.before[tbl] : AgeOf(row) <= horizon(tbl)}
            /\ \A snap \in dbOp.before["portfolio_snapshots"]
                             \ tables["portfolio_snapshots"] :
                  \A tbl \in raw : \A row \in tables[tbl] : AgeOf(row) # AgeOf(snap)

(***************************************************************************)
(* C28: get_price_history(s, days) returns every row stored under the      *)
(* symbol s, as s was given to store_price_data, whose timestamp lies in   *)
(* the last `days` days, and no other row.                                 *)
(***************************************************************************)
C28_HistoryReturnsStoredRows ==
    (dbOp.fn = "get_price_history" /\ ~dbOp.failed) =>
        LET symbol == dbOp.arg[1]
            days   == dbOp.arg[2]
            stored == {row \in tables["price_data"] :
                          row.symbol = symbol /\ row.timestamp >= dbOp.at - days}
        IN  dbOp.outcome.rows =
                {[timestamp |-> row.timestamp, price |-> row.price,
                  volume |-> row.volume] : row \in stored}

----------------------------------------------------------------------------
(* Claims about the collectors' fetches, checked under SpecCollect.        *)

(* the fetches of one source that return a list *)
SourceFetches == {"_scan_defillama_yields", "_collect_aave_data"}

(* the upstream of the fetch failed: no connection, a timeout, a status    *)
(* outside 2xx, a body that is no JSON, or JSON of another shape than the  *)
(* fetch reads                                                             *)
RemoteFailure ==
    \/ fetch.upstream.failure # "none"
    \/ fetch.upstream.status \notin 200..299
    \/ /\ fetch.fn = "_scan_defillama_yields"
       /\ fetch.upstream.body.shape # "dict"
    \/ /\ fetch.fn = "_collect_aave_data"
       /\ fetch.upstream.body.shape # "list"

(***************************************************************************)
(* C24: no exception leaves a fetch of a collector, whatever the upstream  *)
(* does, and a fetch of one source whose upstream failed returns the empty *)
(* list.                                                                   *)
(***************************************************************************)
C24_FetchFailSoft ==
    /\ fetch.escaped = ""
    /\ (fetch.fn \in SourceFetches /\ RemoteFailure) => fetch.value = <<>>

(* C24 witness: the request of _collect_aave_data timed out; the exception *)
(* was caught and the fetch returned [].                                   *)
C24_Witness ==
    /\ fetch.fn = "_collect_aave_data"
    /\ fetch.upstream.failure = "timeout"
    /\ fetch.raised = "TimeoutError"
    /\ fetch.escaped = ""
    /\ fetch.value = <<>>

(* the pool alone would be emitted: it passes the filter of the scan *)
AdmissiblePool(pool) ==
    /\ PoolError(pool, fetch.p.min_apy) = ""
    /\ ScanDefiLlama([status |-> "ok", items |-> <<pool.fields>>],
                     fetch.p.min_apy, fetch.p.min_tvl,
                     EffectiveChains(fetch.p.chains)) # <<>>

AdmissibleMarket(market) == MarketError(market) = "" /\ MarketKept(market)

(***************************************************************************)
(* C25: a fetch of one source emits every well-formed admissible record of *)
(* the payload it got, whatever the other records of the payload are: a    *)
(* malformed record costs that record only.                                *)
(***************************************************************************)
C25_MalformedRecordSkipped ==
    LET body == fetch.upstream.body
    IN  /\ (fetch.fn = "_scan_defillama_yields" /\ body.shape = "dict") =>
              \A i \in 1..Len(body.items) :
                  AdmissiblePool(body.items[i]) =>
                      \E k \in 1..Len(fetch.value) :
                          fetch.value[k].contract_address = body.items[i].fields.pool
        /\ (fetch.fn = "_collect_aave_data" /\ body.shape = "list") =>
              \A i \in 1..Len(body.items) :
                  AdmissibleMarket(body.items[i]) =>
                      \E k \in 1..Len(fetch.value) :
                          fetch.value[k] = ProtocolDataOf(body.items[i])

----------------------------------------------------------------------------
(* Claims about the expiry of cache entries, checked under SpecTtl.        *)

(* the seconds an entry of each helper lives when no ttl is given *)
CategoryTtl(fn) ==
    CASE fn = "cache_price_data"          -> 60
      [] fn = "batch_cache_prices"        -> 60
      [] fn = "cache_yield_opportunities" -> 300
      [] fn = "cache_market_data"         -> 180
      [] fn = "cache_ai_prediction"       -> 3600
      [] fn = "cache_portfolio_analysis"  -> 300
      [] fn = "cache_gas_prices"          -> 120

Helpers ==
    {"cache_price_data", "batch_cache_prices", "cache_yield_opportunities",
     "cache_market_data", "cache_ai_prediction", "cache_portfolio_analysis",
     "cache_gas_prices"}

(* the keys whose entry a call changed; op.arg is the key it was to write *)
Written == {k \in DOMAIN op.after : op.after[k] # op.before[k]}

(***************************************************************************)
(* C26: a cache_* helper (or batch_cache_prices) called without a ttl, the *)
(* connection being there, writes its entry with the expiry time of its    *)
(* own category: 60 s for prices, 300 s for yield opportunities, 180 s for *)
(* market data, 3600 s for AI predictions, 300 s for portfolio analyses,   *)
(* 120 s for gas prices.                                                   *)
(***************************************************************************)
C26_DefaultTtlPerCategory ==
    (op.fn \in Helpers /\ op.connected /\ ~op.ttl.given) =>
        \A k \in Written \cup {op.arg} :
            /\ op.after[k].present
            /\ op.after[k].exp = op.at + CategoryTtl(op.fn)

(* C26 witness: cache_gas_prices called without ttl a minute after start   *)
(* wrote an entry that expires 120 s later.                                *)
C26_Witness ==
    /\ op.fn = "cache_gas_prices"
    /\ op.connected
    /\ ~op.ttl.given
    /\ op.at = 60
    /\ store["gas_prices:ethereum"].present
    /\ store["gas_prices:ethereum"].exp = 180

(***************************************************************************)
(* C27: every entry in the cache has an expiry time, whichever write       *)
(* operation created it.                                                   *)
(***************************************************************************)
C27_EveryEntryExpires ==
    \A k \in DOMAIN store : store[k].present => store[k].exp # NoExpiry

----------------------------------------------------------------------------
(* Claim about the rate limiter, checked under SpecRate.                   *)

(* the requests of the client admitted in the window that starts at w *)
AdmittedIn(w) ==
    Cardinality({i \in 1..Len(rateLog.admits) :
                    /\ w <= rateLog.admits[i]
                    /\ rateLog.admits[i] < w + rateConfig.window})

(***************************************************************************)
(* C29: for every start of a window of the client (every reset_time its    *)
(* entry has had), the requests admitted in the RATE_LIMIT_WINDOW seconds  *)
(* from that start are at most RATE_LIMIT_REQUESTS, for each configured    *)
(* window length, with the periodic cleanup and with two threads.          *)
(***************************************************************************)
C29_AdmittedWithinLimit ==
    \A w \in rateLog.starts : AdmittedIn(w) <= rateConfig.requests

----------------------------------------------------------------------------
(* Claim about the circuit breaker, checked under SpecBreaker.             *)

(* the call that has just ended found the breaker OPEN, the recovery       *)
(* timeout elapsed or not                                                  *)
FoundOpen == breakerCall.made /\ breakerCall.before.state = "OPEN"
TimeoutElapsed ==
    breakerCall.at - breakerCall.before.last_failure_time
        > breakerConfig.recovery_timeout

(***************************************************************************)
(* C30: the breaker is OPEN only with failure_count >= failure_threshold;  *)
(* a call that finds it OPEN before the recovery timeout has elapsed       *)
(* raises, does not invoke the function and changes nothing; after the     *)
(* timeout the call is a trial that leaves the breaker CLOSED with         *)
(* failure_count 0 when the function returns and OPEN when it raises; and  *)
(* a call moves the breaker from CLOSED to OPEN only when the function has *)
(* failed failure_threshold times in a row, a success in between starting  *)
(* the count afresh.                                                       *)
(***************************************************************************)
C30_BreakerStateMachine ==
    /\ breaker.state = "OPEN" =>
          breaker.failure_count >= breakerConfig.failure_threshold
    /\ (FoundOpen /\ ~TimeoutElapsed) =>
          /\ ~breakerCall.invoked
          /\ breakerCall.raised
          /\ breaker = breakerCall.before
    /\ (FoundOpen /\ TimeoutElapsed) =>
          /\ breakerCall.invoked
          /\ breakerCall.trial
          /\ breakerCall.raised => breaker.state = "OPEN"
          /\ ~breakerCall.raised =>
                (breaker.state = "CLOSED" /\ breaker.failure_count = 0)
    /\ (/\ breakerCall.made
        /\ breakerCall.before.state = "CLOSED"
        /\ breaker.state = "OPEN") =>
          breakerStreak >= breakerConfig.failure_threshold

====
